---- MODULE Spec2Model ----
(***************************************************************************)
(* Model of the mainegeo gazetteer (src/src/mainegeo/matching.py) and of   *)
(* the township-name functions it is built on                              *)
(* (src/src/mainegeo/townships.py, src/src/mainegeo/patterns.py).          *)
(*                                                                         *)
(* Strings.  A place name is modelled as a record                          *)
(*     [toks |-> sequence of words, up |-> BOOLEAN]                        *)
(* toks are the blank-separated words of the string and up says whether    *)
(* the string is all upper case (str.upper() sets it).  The regular        *)
(* expressions of patterns.py are modelled by what they match on such      *)
(* word sequences: single blanks between words, no punctuation.            *)
(* Python's None and the empty string are both falsy; both are the string  *)
(* with no words.                                                          *)
(***************************************************************************)
EXTENDS Naturals, Sequences, FiniteSets

VARIABLES rows, yaml, rawdb, yamldb, call,
          unit, towndb, heap, thread, builds

vars == <<rows, yaml, rawdb, yamldb, call, unit, towndb, heap, thread, builds>>

---------------------------------------------------------------------------
(* Bounds *)

\* Longest reference dataset (rows of townships.json) that is explored.
MaxTowns == 3

---------------------------------------------------------------------------
(* Strings *)

Str(t, u) == [toks |-> t, up |-> u]

\* None / '' (falsy)
None == Str(<<>>, TRUE)

\* str.upper()
upper(s) == Str(s.toks, TRUE)

\* truthiness of a str-or-None value
Truthy(s) == s.toks # <<>>

Last(t) == t[Len(t)]

Front(t) == SubSeq(t, 1, Len(t) - 1)

\* the subsequence of t at the positions satisfying keep, in order
RECURSIVE Filter(_, _, _)
Filter(t, keep, i) ==
    IF i > Len(t) THEN <<>>
    ELSE (IF i \in keep THEN <<t[i]>> ELSE <<>>) \o Filter(t, keep, i + 1)

---------------------------------------------------------------------------
(* patterns.py: the building blocks of the township patterns *)

REGIONS == {"ED", "MD", "ND", "SD", "TS", "BKP", "BPP", "EKR", "NWP", "WKR",
            "NBKP", "NBPP", "WBKP", "WELS"}

\* words matched by T.?\d{1,2} or T[ABCDX]
TOWNSHIP == {"T4", "T7", "TA"}

\* words matched by R.?\d{1,2}
RANGE == {"R3"}

\* the flag words " twps?" of NON_ALIAS_PATTERN
TWP_WORDS == {"TWP", "TWPS"}

\* the one-word entries of the suffix table
ABBREVIATIONS == {<<"PLANTATION", "PLT">>, <<"TOWNSHIP", "TWP">>,
                  <<"RESERVATION", "RES">>}

\* full suffix (singular or plural) at the end of the name -> abbreviation
SUFFIX_REPLACEMENTS ==
    ABBREVIATIONS \cup {<<"PLANTATIONS", "PLTS">>, <<"TOWNSHIPS", "TWPS">>,
                        <<"RESERVATIONS", "RESS">>}

GNIS_GEOTYPES == {"CITY", "PLANTATION", "TOWNSHIP", "TOWN"}

\* the one-word suffixes of ALL_SUFFIXES, with the optional plural S
ALL_SUFFIXES == {"PLANTATION", "TOWNSHIP", "RESERVATION", "PLT", "TWP", "RES",
                 "PLANTATIONS", "TOWNSHIPS", "RESERVATIONS", "PLTS", "TWPS"}

\* generate_false_suffix(): what precedes the suffix in CONTAINS_FALSE_SUFFIX
PRECEDES_FALSE_SUFFIX == {"INDIAN"}

\* UNNAMED: the last word of the match that starts at the township word i:
\* an optional range word, then up to two region words.
UnnamedEnd(t, i) ==
    LET r  == IF i + 1 <= Len(t) /\ t[i + 1] \in RANGE THEN i + 1 ELSE i
        g1 == IF r + 1 <= Len(t) /\ t[r + 1] \in REGIONS THEN r + 1 ELSE r
        g2 == IF g1 > r /\ g1 + 1 <= Len(t) /\ t[g1 + 1] \in REGIONS
              THEN g1 + 1 ELSE g1
    IN  g2

\* positions of t covered by some match of UNNAMED_PATTERN
UNNAMED_PATTERN(t) ==
    {i \in 1..Len(t) :
        \E j \in 1..i : t[j] \in TOWNSHIP /\ i <= UnnamedEnd(t, j)}

\* positions of t matched by UNNAMED_ELEMENTS_PATTERN.findall
UNNAMED_ELEMENTS_PATTERN(t) ==
    {i \in 1..Len(t) : t[i] \in TOWNSHIP \cup RANGE \cup REGIONS}

\* positions removed by NON_ALIAS_CHARACTERS_PATTERN: the township code and
\* every twp(s)
NON_ALIAS_CHARACTERS_PATTERN(t) ==
    UNNAMED_PATTERN(t) \cup {i \in 1..Len(t) : t[i] \in TWP_WORDS}

\* positions removed by NON_ALIAS_PATTERN: the township code and a twp(s)
\* that directly follows it
NON_ALIAS_PATTERN(t) ==
    UNNAMED_PATTERN(t) \cup
    {i \in 2..Len(t) : t[i] \in TWP_WORDS /\ (i - 1) \in UNNAMED_PATTERN(t)}

---------------------------------------------------------------------------
(* townships.py *)

is_unnamed_township(town) == UNNAMED_PATTERN(town.toks) # {}

clean_code(town) ==
    IF ~is_unnamed_township(town) THEN town
    ELSE Str(Filter(town.toks, UNNAMED_ELEMENTS_PATTERN(town.toks), 1), town.up)

has_alias(town) ==
    IF ~is_unnamed_township(town) THEN FALSE
    ELSE (1..Len(town.toks)) \ NON_ALIAS_CHARACTERS_PATTERN(town.toks) # {}

extract_alias(town) ==
    IF ~has_alias(town) THEN None
    ELSE Str(Filter(town.toks,
                    (1..Len(town.toks)) \ NON_ALIAS_PATTERN(town.toks), 1),
             town.up)

clean_township(town) ==
    IF ~is_unnamed_township(town) THEN town
    ELSE Str(extract_alias(town).toks \o clean_code(town).toks, town.up)

strip_suffix(town) ==
    LET t == town.toks
    IN  IF /\ Len(t) >= 2
           /\ Last(t) \in ALL_SUFFIXES
           /\ t[Len(t) - 1] \notin PRECEDES_FALSE_SUFFIX
        THEN Str(Front(t), town.up)
        ELSE town

strip_region(town) ==
    LET t == town.toks
    IN  IF Len(t) >= 2 /\ Last(t) \in REGIONS
        THEN Str(Front(t), town.up)
        ELSE town

\* replace_all(table, word): the table's replacement of a word, or the word
replace_all(table, w) ==
    IF \E p \in table : p[1] = w
    THEN (CHOOSE p \in table : p[1] = w)[2]
    ELSE w

normalize_suffix(town) ==
    LET t    == town.toks
        gnis == Len(t) >= 3 /\ t[1] \in GNIS_GEOTYPES /\ t[2] = "OF"
        name == IF ~gnis THEN t
                ELSE SubSeq(t, 3, Len(t)) \o
                     (IF \E p \in ABBREVIATIONS : p[1] = t[1]
                      THEN <<replace_all(ABBREVIATIONS, t[1])>>
                      ELSE <<>>)
    IN  IF name = <<>> THEN town
        ELSE Str(Front(name) \o <<replace_all(SUFFIX_REPLACEMENTS, Last(name))>>,
                 town.up)

\* no punctuation is left in a word sequence
strip_town(town) == town

clean_town(town) == clean_township(normalize_suffix(strip_town(town)))

\* adds the suffix Twp when absent, removes it when present
toggle_suffix(town) ==
    LET t == town.toks
    IN  IF t = <<>> THEN town
        ELSE IF Last(t) = "TWP" THEN Str(Front(t), town.up)
        ELSE Str(t \o <<"TWP">>, town.up)

---------------------------------------------------------------------------
(* matching.py: TownReference *)

TownTypes == {"Town", "City", "Plantation", "Reservation",
              "Unorganized Township", "Island Group"}

\* TownType.UNORGANIZED, TownType.ISLAND
ToggledTypes == {"Unorganized Township", "Island Group"}

_clean_aliases(raw) == {upper(a) : a \in {x \in raw : Truthy(x)}}

\* aliases.extend(list(map(f, aliases))), one operator for each f
extend_clean_code(aliases) == aliases \cup {clean_code(a) : a \in aliases}

extend_clean_town(aliases) == aliases \cup {clean_town(a) : a \in aliases}

extend_strip_suffix(aliases) == aliases \cup {strip_suffix(a) : a \in aliases}

extend_strip_region(aliases) == aliases \cup {strip_region(a) : a \in aliases}

\* aliases.extend(list(filter(None, map(extract_alias, aliases))))
extend_extract_alias(aliases) ==
    aliases \cup ({extract_alias(a) : a \in aliases} \ {None})

extend_toggle_suffix(aliases, town_type) ==
    IF town_type \in ToggledTypes
    THEN aliases \cup {toggle_suffix(a) : a \in aliases}
    ELSE aliases

_infer_aliases(aliases, town_type) ==
    extend_toggle_suffix(
        extend_extract_alias(
            extend_strip_region(
                extend_strip_region(
                    extend_strip_suffix(
                        extend_clean_town(
                            extend_clean_code(aliases)))))),
        town_type)

\* json_object_hook that leaves the field town out of the alias lists
json_object_hook_variants(id, json_record) ==
    [id          |-> id,
     name        |-> json_record.town,
     geocode     |-> json_record.town_geocode,
     town_type   |-> json_record.geotype,
     county_fips |-> json_record.county_fips,
     aliases     |-> _infer_aliases(_clean_aliases(json_record.gnis_variants),
                                    json_record.geotype)]

\* TownReference(..., _processed = False) as json_object_hook builds it from
\* one row of townships.json; id is the identity of the Python object.
json_object_hook(id, json_record) ==
    [id          |-> id,
     name        |-> json_record.town,
     geocode     |-> json_record.town_geocode,
     town_type   |-> json_record.geotype,
     county_fips |-> json_record.county_fips,
     aliases     |-> _infer_aliases(
                        _clean_aliases({json_record.town} \cup json_record.gnis_variants),
                        json_record.geotype)]

---------------------------------------------------------------------------
(* matching.py: TownAlias and the alias index *)

\* county_fips = None
NoFips == 0

\* no record (None)
NoTown == 0

\* geocode None / ''
NoGeocode == 0

TownAlias(name, county_fips) == [name |-> name, county_fips |-> county_fips]

Range(f) == {f[i] : i \in DOMAIN f}

\* every TownAlias the loop appends, with the place it is appended at (the
\* Python list keeps repeated keys)
_suggested_aliases(data) ==
    UNION {UNION {{[town |-> i, nth |-> 1, alias |-> TownAlias(a, NoFips)],
                   [town |-> i, nth |-> 2,
                    alias |-> TownAlias(a, data[i].county_fips)]} :
                  a \in data[i].aliases} :
           i \in DOMAIN data}

\* counts[alias] over the list all
counts(all, alias) == Cardinality({e \in all : e.alias = alias})

unique_of(all) == {alias \in {e.alias : e \in all} : counts(all, alias) = 1}

_unique_aliases(data) == unique_of(_suggested_aliases(data))

\* Writes without the exception for the town's canonical name
Writes_unique_only(data, unique, i) ==
    {alias \in UNION {{TownAlias(a, NoFips), TownAlias(a, data[i].county_fips)} :
                      a \in data[i].aliases} :
        alias \in unique}

\* the keys town i writes into records
Writes(data, unique, i) ==
    LET canonical == upper(data[i].name)
    IN  {alias \in UNION {{TownAlias(a, NoFips), TownAlias(a, data[i].county_fips)} :
                          a \in data[i].aliases} :
            alias \in unique \/ alias.name = canonical}

\* the dict records as a set of entries [alias |-> key, town |-> id of the
\* record]; a later town overwrites an earlier one
\* the last town of data that writes the key
LastWriter(data, writes, alias) ==
    CHOOSE i \in DOMAIN data :
        /\ alias \in writes[i]
        /\ \A j \in DOMAIN data : alias \in writes[j] => j <= i

records_of(data, writes) ==
    {[alias |-> k, town |-> data[LastWriter(data, writes, k)].id] :
        k \in UNION Range(writes)}

all_writes(data, unique) == [i \in DOMAIN data |-> Writes(data, unique, i)]

alias_lookup(data) == records_of(data, all_writes(data, _unique_aliases(data)))

\* alias_lookup.keys()
keys(records) == {e.alias : e \in records}

\* alias_lookup.get(alias)
get(records, alias) ==
    IF alias \in keys(records)
    THEN (CHOOSE e \in records : e.alias = alias).town
    ELSE NoTown

\* _remove_duplicate_aliases that tests the state-wide key of the alias
_remove_duplicate_aliases_statewide(data, records) ==
    [i \in DOMAIN data |->
        [data[i] EXCEPT !.aliases =
            {alias_name \in @ : TownAlias(alias_name, NoFips) \in keys(records)}]]

_remove_duplicate_aliases(data, records) ==
    [i \in DOMAIN data |->
        [data[i] EXCEPT !.aliases =
            {alias_name \in @ :
                TownAlias(alias_name, data[i].county_fips) \in keys(records)}]]

\* the words of the model in code-point order
Alphabet == <<"A", "B", "R3", "T4", "T7", "TA", "TWP", "WELS", "Z">>

Rank(w) == CHOOSE i \in DOMAIN Alphabet : Alphabet[i] = w

\* Python's str < str on names of one letter case
RECURSIVE StrLess(_, _)
StrLess(s, t) ==
    IF t = <<>> THEN FALSE
    ELSE IF s = <<>> THEN TRUE
    ELSE IF Head(s) # Head(t) THEN Rank(Head(s)) < Rank(Head(t))
    ELSE StrLess(Tail(s), Tail(t))

\* list.sort(key = lambda x: x.name): stable
RECURSIVE sort(_)
sort(data) ==
    IF data = <<>> THEN <<>>
    ELSE LET x    == Last(data)
             rest == sort(Front(data))
             n    == Cardinality({i \in DOMAIN rest :
                                     ~StrLess(x.name.toks, rest[i].name.toks)})
         IN  SubSeq(rest, 1, n) \o <<x>> \o SubSeq(rest, n + 1, Len(rest))

\* the message of the ValueError raised, "" when none is
\* _validate_data without the test for repeated geocodes
_validate_data_missing_only(data) ==
    IF \E i \in DOMAIN data : data[i].geocode = NoGeocode
    THEN "Missing geocodes in source data"
    ELSE ""

_validate_data(data) ==
    LET geocodes == [i \in DOMAIN data |-> data[i].geocode]
    IN  IF \E i \in DOMAIN geocodes : geocodes[i] = NoGeocode
        THEN "Missing geocodes in source data"
        ELSE IF Len(geocodes) # Cardinality(Range(geocodes))
        THEN "Non-unique geocodes in source data"
        ELSE ""

---------------------------------------------------------------------------
(* matching.py: TownDatabase *)

\* no TownDatabase object
NoDb == [state |-> "none", data |-> <<>>, processed |-> FALSE,
         cached |-> FALSE, records |-> {}]

\* TownDatabase(towns, _processed = False).__post_init__: _process_data
\* (the first town's alias test computes and caches alias_lookup from the
\* aliases as generated, then the aliases are pruned and the list sorted)
processed_db(towns, records) ==
    [state |-> "ok",
     data |-> sort(_remove_duplicate_aliases(towns, records)),
     processed |-> TRUE,
     cached |-> towns # <<>>,
     records |-> IF towns # <<>> THEN records ELSE {}]

_process_data(towns) == processed_db(towns, alias_lookup(towns))

\* json.load(file, object_hook = cls.json_object_hook)
json_load(file) == [i \in DOMAIN file |-> json_object_hook(i, file[i])]

\* the document save_to_yaml dumps: object identities and the cached index
\* are not part of it
save_to_yaml(data) ==
    [i \in DOMAIN data |->
        [name      |-> data[i].name,
         geocode   |-> data[i].geocode,
         town_type |-> data[i].town_type,
         county    |-> [fips |-> data[i].county_fips],
         aliases   |-> data[i].aliases]]

\* TownDatabase(towns, _processed = True) of the records of a document:
\* neither processed nor validated, alias_lookup not computed yet
load_from_yaml(doc) ==
    [state |-> "ok",
     data |-> [i \in DOMAIN doc |->
                 [id          |-> i,
                  name        |-> doc[i].name,
                  geocode     |-> doc[i].geocode,
                  town_type   |-> doc[i].town_type,
                  county_fips |-> doc[i].county.fips,
                  aliases     |-> doc[i].aliases]],
     processed |-> TRUE,
     cached |-> FALSE,
     records |-> {}]

\* self.alias_lookup (a cached_property): the cached dict, computed from the
\* data at the first access
cached_alias_lookup(db) == IF db.cached THEN db.records ELSE alias_lookup(db.data)

touch(db) == [db EXCEPT !.cached = TRUE, !.records = cached_alias_lookup(db)]

\* the record object with identity id
TownOf(db, id) == CHOOSE t \in Range(db.data) : t.id = id

lazy_get_code(unmatched_town) ==
    LET township_code == clean_code(unmatched_town)
    IN  IF township_code # unmatched_town THEN township_code ELSE None

lazy_get_alias(unmatched_town) ==
    LET township_alias == extract_alias(unmatched_town)
    IN  IF township_alias # unmatched_town THEN township_alias ELSE None

\* lookup_name that never tries the county key
lookup_name_statewide(records, name, county_fips) ==
    IF ~Truthy(name) THEN NoTown ELSE get(records, TownAlias(name, NoFips))

\* lookup_name that tries the county key before the state-wide key
lookup_name_county_first(records, name, county_fips) ==
    IF ~Truthy(name) THEN NoTown
    ELSE LET county_match == IF county_fips = NoFips THEN NoTown
                             ELSE get(records, TownAlias(name, county_fips))
         IN  IF county_match # NoTown THEN county_match
             ELSE get(records, TownAlias(name, NoFips))

\* one round of the loop of match: the state-wide key, then the county key
lookup_name(records, name, county_fips) ==
    IF ~Truthy(name) THEN NoTown
    ELSE LET state_match == get(records, TownAlias(name, NoFips))
         IN  IF state_match # NoTown THEN state_match
             ELSE IF county_fips = NoFips THEN NoTown
             ELSE get(records, TownAlias(name, county_fips))

\* the list names of match
names_of(town_name) ==
    <<town_name, lazy_get_code(town_name), lazy_get_alias(town_name)>>

\* the first name of the list that matches, in list order
first_match(matches) ==
    IF \A i \in DOMAIN matches : matches[i] = NoTown THEN NoTown
    ELSE matches[CHOOSE i \in DOMAIN matches :
                    /\ matches[i] # NoTown
                    /\ \A j \in DOMAIN matches : matches[j] # NoTown => i <= j]

\* match_names that tries the state-wide key of every name before any
\* county key
match_names_county_last(records, names, county_fips) ==
    first_match([i \in 1..(2 * Len(names)) |->
        IF i <= Len(names)
        THEN lookup_name(records, names[i], NoFips)
        ELSE IF county_fips = NoFips \/ ~Truthy(names[i - Len(names)]) THEN NoTown
        ELSE get(records, TownAlias(names[i - Len(names)], county_fips))])

match_names(records, names, county_fips) ==
    first_match([i \in DOMAIN names |-> lookup_name(records, names[i], county_fips)])

\* the id of the record match returns, NoTown for None
match(db, town, county_fips, cleaned) ==
    match_names(cached_alias_lookup(db),
                names_of(IF cleaned THEN upper(town) ELSE clean_town(upper(town))),
                county_fips)

name_of(db, m) == IF m # NoTown THEN TownOf(db, m).name ELSE None

\* canonical_name that hands the input back when nothing matches
canonical_name_echo(db, town, county_fips) ==
    IF match(db, town, county_fips, TRUE) = NoTown THEN upper(town)
    ELSE name_of(db, match(db, town, county_fips, TRUE))

canonical_name(db, town, county_fips) ==
    name_of(db, match(db, town, county_fips, TRUE))

---------------------------------------------------------------------------
(* The inputs that are explored *)

Counties == {19, 29}

\* canonical names of the reference rows, with their geotype
RefNames == {[town |-> Str(<<"A">>, FALSE), geotype |-> "Town"],
             [town |-> Str(<<"T7">>, TRUE), geotype |-> "Unorganized Township"]}

\* the raw alias lists of a row besides its name (gnis_variants, ...)
RefVariants == {{}, {Str(<<"B", "TWP", "T7">>, FALSE)}}

QueryFips == {NoFips, 19}

QueryToks == {<<"A">>, <<"T7">>, <<"B", "TWP">>, <<"B", "TWP", "T7">>, <<"Z", "T4">>}

Query(t, f, c) == [town |-> t, county_fips |-> f, cleaned |-> c]

\* the calls match(town, county_fips, cleaned) that are explored
Queries ==
    {Query(Str(t, TRUE), f, TRUE) : t \in QueryToks, f \in QueryFips}
    \cup {Query(Str(<<"B", "TWP">>, FALSE), f, TRUE) : f \in QueryFips}
    \cup {Query(Str(<<"T7", "B", "TWP">>, TRUE), f, FALSE) : f \in QueryFips}

\* the calls canonical_name(town, county_fips) that are explored
CanonQueries ==
    {Query(Str(t, TRUE), f, TRUE) :
        t \in {<<"A">>, <<"B", "TWP", "T7">>, <<"Z", "T4">>}, f \in QueryFips}

---------------------------------------------------------------------------
(* Character strings and Python's re *)

\* Strings of elections.py and of the character-level functions of
\* townships.py are TLA+ strings; s[i] is Char(s, i).
Char(s, i) == SubSeq(s, i, i)

Digits == {"0", "1", "2", "3", "4", "5", "6", "7", "8", "9"}

UpperLetters == "ABCDEFGHIJKLMNOPQRSTUVWXYZ"

LowerLetters == "abcdefghijklmnopqrstuvwxyz"

Upper == {Char(UpperLetters, k) : k \in 1..26}

Lower == {Char(LowerLetters, k) : k \in 1..26}

Letters == Upper \cup Lower

\* \w
Word == Letters \cup Digits \cup {"_"}

\* \s
Space == {" "}

\* the value of an expression, computed once: Val({F(x) : x \in {e}}) is F(e)
Val(S) == CHOOSE v \in S : TRUE

\* strs[lo] \o ... \o strs[hi]
RECURSIVE Concat(_, _, _)
Concat(strs, lo, hi) ==
    IF lo > hi THEN ""
    ELSE IF lo = hi THEN strs[lo]
    ELSE Val({Concat(strs, lo, mid) \o Concat(strs, mid + 1, hi) : mid \in {(lo + hi) \div 2}})

\* the sequences seqs[lo], ..., seqs[hi] one after the other
RECURSIVE Flatten(_, _, _)
Flatten(seqs, lo, hi) ==
    IF lo > hi THEN <<>>
    ELSE IF lo = hi THEN seqs[lo]
    ELSE Val({Flatten(seqs, lo, mid) \o Flatten(seqs, mid + 1, hi) : mid \in {(lo + hi) \div 2}})

\* str.upper on one character
UpperChar == [c \in Lower |-> Char(UpperLetters, CHOOSE k \in 1..26 : Char(LowerLetters, k) = c)]

\* str.upper
str_upper(s) ==
    Val({Concat([k \in 1..Len(v) |->
                    IF Char(v, k) \in Lower THEN UpperChar[Char(v, k)] ELSE Char(v, k)],
                1, Len(v)) :
            v \in {s}})

\* the nodes of a regular expression
Lit(str) == [op |-> "lit", str |-> str]

OneOf(strs) == [op |-> "oneof", strs |-> strs]

In(set) == [op |-> "in", set |-> set]

NotIn(set) == [op |-> "notin", set |-> set]

Cat(rs) == [op |-> "cat", rs |-> rs]

Alt(rs) == [op |-> "alt", rs |-> rs]

Rep(r, min, max) == [op |-> "rep", r |-> r, min |-> min, max |-> max]

\* an unbounded repetition count
Many == 64

Opt(r) == Rep(r, 0, 1)

Plus(r) == Rep(r, 1, Many)

Star(r) == Rep(r, 0, Many)

AnyChar == NotIn({})

Bol == [op |-> "bol"]

Eol == [op |-> "eol"]

WordBoundary == [op |-> "wordb"]

NotAhead(r) == [op |-> "notahead", r |-> r]

Ahead(r) == [op |-> "ahead", r |-> r]

Behind(r, width) == [op |-> "behind", r |-> r, width |-> width]

NotBehind(r, width) == [op |-> "notbehind", r |-> r, width |-> width]

InSeq(x, seq) == \E n \in DOMAIN seq : seq[n] = x

IsWordAt(s, i) == i >= 1 /\ i <= Len(s) /\ Char(s, i) \in Word

InClass(r, c) == IF r.op = "in" THEN c \in r.set ELSE c \notin r.set

\* the length of the longest run of characters of the class r from position i
RunLength(r, s, i) ==
    CHOOSE m \in 0..(Len(s) + 1 - i) :
        /\ \A k \in i..(i + m - 1) : InClass(r, Char(s, k))
        /\ i + m <= Len(s) => ~InClass(r, Char(s, i + m))

Min(a, b) == IF a <= b THEN a ELSE b

\* the repetition of a character class: the longest run first
EndsRun(r, min, max, s, i) ==
    IF i > Len(s) + 1 THEN <<>>
    ELSE Val({IF m < min THEN <<>> ELSE [k \in 1..(m - min + 1) |-> i + m - k + 1] :
                 m \in {Min(RunLength(r, s, i), max)}})

\* The positions at which a match of r that starts at position i of s can
\* end (the position after its last character), in the order in which the
\* backtracking matcher of re tries them: greedy repetitions, alternatives
\* from left to right.
RECURSIVE Ends(_, _, _), EndsCat(_, _, _, _), EndsRep(_, _, _, _, _)
Ends(r, s, i) ==
    CASE r.op = "lit" ->
            IF i + Len(r.str) <= Len(s) + 1 /\ SubSeq(s, i, i + Len(r.str) - 1) = r.str
            THEN <<i + Len(r.str)>> ELSE <<>>
      [] r.op = "oneof" ->
            IF \E w \in r.strs : Ends(Lit(w), s, i) # <<>>
            THEN <<i + Len(CHOOSE w \in r.strs : Ends(Lit(w), s, i) # <<>>)>>
            ELSE <<>>
      [] r.op = "in" -> IF i <= Len(s) /\ Char(s, i) \in r.set THEN <<i + 1>> ELSE <<>>
      [] r.op = "notin" -> IF i <= Len(s) /\ Char(s, i) \notin r.set THEN <<i + 1>> ELSE <<>>
      [] r.op = "cat" -> EndsCat(r.rs, 1, s, i)
      [] r.op = "alt" ->
            Val({Flatten([k \in DOMAIN rs |-> Ends(rs[k], s, i)], 1, Len(rs)) : rs \in {r.rs}})
      [] r.op = "rep" -> EndsRep(r.r, r.min, r.max, s, i)
      [] r.op = "bol" -> IF i = 1 THEN <<i>> ELSE <<>>
      [] r.op = "eol" -> IF i = Len(s) + 1 THEN <<i>> ELSE <<>>
      [] r.op = "wordb" -> IF IsWordAt(s, i - 1) # IsWordAt(s, i) THEN <<i>> ELSE <<>>
      [] r.op = "ahead" -> IF Ends(r.r, s, i) # <<>> THEN <<i>> ELSE <<>>
      [] r.op = "notahead" -> IF Ends(r.r, s, i) = <<>> THEN <<i>> ELSE <<>>
      [] r.op = "behind" ->
            IF i > r.width /\ InSeq(i, Ends(r.r, s, i - r.width)) THEN <<i>> ELSE <<>>
      [] r.op = "notbehind" ->
            IF i > r.width /\ InSeq(i, Ends(r.r, s, i - r.width)) THEN <<>> ELSE <<i>>

\* rs[k], then the rest of the concatenation from each of its ends
EndsCat(rs, k, s, i) ==
    IF k > Len(rs) THEN <<i>>
    ELSE Val({Flatten([n \in DOMAIN js |-> EndsCat(rs, k + 1, s, js[n])], 1, Len(js)) :
                 js \in {Ends(rs[k], s, i)}})

\* one more r, then the rest of the repetition from each of its ends, before
\* the end without another r
EndsRep(r, min, max, s, i) ==
    IF r.op \in {"in", "notin"} THEN EndsRun(r, min, max, s, i)
    ELSE (IF max > 0
          THEN Val({Flatten([n \in DOMAIN js |->
                                IF js[n] > i
                                THEN EndsRep(r, IF min > 0 THEN min - 1 ELSE 0, max - 1, s, js[n])
                                ELSE <<>>],
                            1, Len(js)) :
                       js \in {Ends(r, s, i)}})
          ELSE <<>>)
         \o (IF min = 0 THEN <<i>> ELSE <<>>)

\* a match: s[start .. end - 1]; no match has start 0
NoSpan == [start |-> 0, end |-> 0]

\* pattern.match(s) at position i
MatchAt(r, s, i) ==
    Val({IF js = <<>> THEN NoSpan ELSE [start |-> k, end |-> js[1]] :
            k \in {i}, js \in {Ends(r, s, i)}})

\* the match at every position of s
MatchesIn(r, s) == Val({[k \in 1..(Len(v) + 1) |-> MatchAt(r, v, k)] : v \in {s}})

\* the first match at or after position i
NextMatch(matches, i) ==
    IF \A k \in i..Len(matches) : matches[k].start = 0 THEN NoSpan
    ELSE matches[CHOOSE k \in i..Len(matches) :
                    /\ matches[k].start # 0
                    /\ \A j \in i..(k - 1) : matches[j].start = 0]

\* pattern.search(s) from position i on
Search(r, s, i) == NextMatch(MatchesIn(r, s), i)

RECURSIVE SpansFrom(_, _)
SpansFrom(matches, i) ==
    Val({IF m.start = 0 THEN <<>>
         ELSE <<m>> \o SpansFrom(matches, IF m.end > m.start THEN m.end ELSE m.end + 1) :
            m \in {NextMatch(matches, i)}})

\* the spans of pattern.finditer(s)
FindSpans(r, s, i) == Val({SpansFrom(matches, i) : matches \in {MatchesIn(r, s)}})

Slice(s, span) == SubSeq(s, span.start, span.end - 1)

\* pattern.findall(s) for a pattern that is matched on subject, the string
\* s folded to upper case when the pattern is compiled with re.I
FindAll(r, s, subject) ==
    Val({[n \in DOMAIN spans |-> Slice(v, spans[n])] :
            v \in {s}, spans \in {FindSpans(r, subject, 1)}})

\* s with spans[n] replaced by repls[n]
ReplaceSpans(s, spans, repls) ==
    Concat([n \in 1..(Len(spans) + 1) |->
               SubSeq(s, IF n = 1 THEN 1 ELSE spans[n - 1].end,
                         IF n > Len(spans) THEN Len(s) ELSE spans[n].start - 1)
                   \o (IF n > Len(spans) THEN "" ELSE repls[n])],
           1, Len(spans) + 1)

\* pattern.sub(repl, s) for a replacement without group references
Sub(r, repl, s, subject) ==
    Val({ReplaceSpans(v, spans, [n \in DOMAIN spans |-> repl]) :
            v \in {s}, spans \in {FindSpans(r, subject, 1)}})

\* sep.join(strs)
Join(strs, sep) ==
    Val({Concat([k \in 1..(2 * Len(v) - 1) |-> IF k % 2 = 1 THEN v[(k + 1) \div 2] ELSE sep],
                1, 2 * Len(v) - 1) :
            v \in {strs}})

\* the position of the n-th sep of s, Len(s) + 1 when s has fewer
Find(s, sep, n) ==
    IF Cardinality({k \in 1..Len(s) : Char(s, k) = sep}) < n THEN Len(s) + 1
    ELSE CHOOSE k \in 1..Len(s) :
            /\ Char(s, k) = sep
            /\ Cardinality({j \in 1..(k - 1) : Char(s, j) = sep}) = n - 1

\* s.split(sep) for a separator of one character
Split(s, sep) ==
    Val({[n \in 1..(Cardinality({k \in 1..Len(v) : Char(v, k) = sep}) + 1) |->
             SubSeq(v, IF n = 1 THEN 1 ELSE Find(v, sep, n - 1) + 1, Find(v, sep, n) - 1)] :
            v \in {s}})

\* "needle in s" for strings
Contains(s, needle) == Search(Lit(needle), s, 1).start # 0
---------------------------------------------------------------------------
(* patterns.py on character strings *)

re_FUZZY == Rep(NotIn(Word \cup {","}), 0, 3)

re_PUNCTUATION == NotIn(Space \cup Word)

re_REGION == Cat(<<NotBehind(In(Letters), 1), OneOf(REGIONS), NotAhead(In(Letters))>>)

re_RANGE == Cat(<<Lit("R"), Opt(AnyChar), Rep(In(Digits), 1, 2)>>)

re_TOWNSHIP_STANDARD == Cat(<<Lit("T"), Opt(AnyChar), Rep(In(Digits), 1, 2)>>)

re_TOWNSHIP_ALTERNATE ==
    Cat(<<NotBehind(In(Word), 1), Lit("T"), In({"A", "B", "C", "D", "X"}),
          NotAhead(In(Letters))>>)

re_TOWNSHIP == Alt(<<re_TOWNSHIP_STANDARD, re_TOWNSHIP_ALTERNATE>>)

re_UNNAMED ==
    Cat(<<re_TOWNSHIP, Opt(Cat(<<re_FUZZY, re_RANGE>>)),
          Rep(Cat(<<re_FUZZY, re_REGION>>), 0, 2)>>)

re_UNNAMED_ELEMENTS == Alt(<<re_TOWNSHIP, re_RANGE, re_REGION>>)

re_LAST_REGION == Cat(<<Lit(" "), re_REGION, Eol>>)

re_LEADING_ZERO == Cat(<<Behind(NotIn(Digits), 1), Lit("0"), Ahead(In(Digits))>>)

re_NOT_REPORTING == NotAhead(Alt(<<Lit("AND"), Lit("&")>>))

re_PARENTHETICAL == Cat(<<Lit("("), re_NOT_REPORTING, Plus(NotIn({"("})), Lit(")")>>)

re_PRECEDES_DASH == Cat(<<Bol, Plus(NotIn({"-"})), Lit("--")>>)

STANDARD_DELIMITER == ","

MEANINGFUL_CHARACTERS == {"(", ")", "-", "&", "/", ","}

re_REGISTRATION == Alt(<<re_PARENTHETICAL, re_PRECEDES_DASH>>)

re_CLEAN_TOWNSHIP == Alt(<<NotIn(Word), re_LEADING_ZERO>>)

re_NON_ALIAS ==
    Alt(<<Cat(<<re_UNNAMED, Opt(Cat(<<Lit(" TWP"), Opt(Lit("S"))>>))>>), re_PUNCTUATION>>)

\* non_alias_chars_re: the code, every non-alphanumeric character, twp(s)
re_NON_ALIAS_CHARACTERS ==
    Alt(<<re_UNNAMED, NotIn(Letters \cup Digits), Cat(<<Lit("TWP"), Opt(Lit("S"))>>)>>)

re_DROP_CHARACTERS == NotIn(Word \cup Space \cup MEANINGFUL_CHARACTERS)

re_NONSTANDARD_DELIMITER == Alt(<<Lit("&"), Lit("/"), Lit("(AND ")>>)

re_ORPHAN_PARENTHESIS == Cat(<<Bol, Plus(NotIn({"("})), Lit(")"), Eol>>)

\* "<geotype> of <town>", matched on the upper-case string
re_GNIS_GEOTYPE == Alt(<<Lit("CITY"), Lit("PLANTATION"), Lit("TOWNSHIP"), Lit("TOWN")>>)

re_GNIS == Cat(<<re_GNIS_GEOTYPE, Lit(" OF "), Plus(AnyChar)>>)

\* the groups of GNIS_PATTERN on a string that it matches
gnis_geotype(s) == SubSeq(s, 1, Ends(re_GNIS_GEOTYPE, s, 1)[1] - 1)

gnis_town(s) == SubSeq(s, Ends(re_GNIS_GEOTYPE, s, 1)[1] + 4, Len(s))

ABBREVIATIONS_str ==
    <<[full |-> "PLANTATION", abbr |-> "PLT"], [full |-> "TOWNSHIP", abbr |-> "TWP"],
      [full |-> "VOTING DISTRICT", abbr |-> "VOTING DIST"],
      [full |-> "RESERVATION", abbr |-> "RES"]>>

\* ABBREVIATIONS.get(geotype), "" for None
gnis_suffix(s) ==
    IF \E n \in DOMAIN ABBREVIATIONS_str : ABBREVIATIONS_str[n].full = gnis_geotype(s)
    THEN ABBREVIATIONS_str[CHOOSE n \in DOMAIN ABBREVIATIONS_str :
                              ABBREVIATIONS_str[n].full = gnis_geotype(s)].abbr
    ELSE ""

re_SUFFIX_REPLACEMENTS ==
    [n \in DOMAIN ABBREVIATIONS_str |->
        [pattern |-> Cat(<<NotBehind(In(Letters), 1), Lit(ABBREVIATIONS_str[n].full),
                           Ahead(Cat(<<Opt(Lit("S")), Eol>>))>>),
         repl |-> ABBREVIATIONS_str[n].abbr]]

re_ALL_SUFFIXES ==
    Alt([n \in 1..8 |-> Lit(IF n <= 4 THEN ABBREVIATIONS_str[n].full
                            ELSE ABBREVIATIONS_str[n - 4].abbr)])

re_SUFFIX ==
    Cat(<<NotBehind(Lit("INDIAN"), 6), Lit(" "), re_ALL_SUFFIXES, Opt(Lit("S")), Eol>>)

\* the ampersands and hyphens of canonical town names (TOWNSHIPS.town):
\* King & Bartlett Twp, Dover-Foxcroft
re_VALID_AMPERSANDS == Cat(<<Behind(Lit("KING "), 5), Lit("&"), Ahead(Lit(" BARTLETT"))>>)

re_VALID_HYPHENS == Cat(<<Lit("DOVER-"), Ahead(Lit("FOXCROFT"))>>)

re_INVALID_PUNCTUATION == Cat(<<re_PUNCTUATION, NotBehind(re_VALID_HYPHENS, 6)>>)

---------------------------------------------------------------------------
(* townships.py on character strings *)

\* a str or None
Some(s) == [null |-> FALSE, str |-> s]

PyNone == [null |-> TRUE, str |-> ""]

\* utils.strings.normalize_whitespace and squish: runs of blanks become one
\* blank, leading and trailing blanks go
RECURSIVE collapse(_, _)
collapse(s, i) ==
    IF i > Len(s) THEN ""
    ELSE IF Char(s, i) = " " /\ (i = Len(s) \/ Char(s, i + 1) = " ") THEN collapse(s, i + 1)
    ELSE Char(s, i) \o collapse(s, i + 1)

normalize_whitespace(s) ==
    Val({IF c # "" /\ Head(c) = " " THEN Tail(c) ELSE c :
            c \in {Val({collapse(v, 1) : v \in {s}})}})

squish(s) == normalize_whitespace(s)

\* re.I: the pattern is matched on the string folded to upper case
is_unnamed_township_str(town) == Search(re_UNNAMED, str_upper(town), 1).start # 0

\* map_clean_element that keeps the zeroes
map_clean_element_nonword(elements) ==
    Val({[n \in DOMAIN e |-> Sub(NotIn(Word), "", e[n], e[n])] : e \in {elements}})

map_clean_element(elements) ==
    Val({[n \in DOMAIN e |-> Sub(re_CLEAN_TOWNSHIP, "", e[n], e[n])] : e \in {elements}})

clean_code_str(town) ==
    Val({IF ~is_unnamed_township_str(v) THEN v
         ELSE Join(map_clean_element(FindAll(re_UNNAMED_ELEMENTS, v, str_upper(v))), " ") :
            v \in {town}})

\* has_alias that does not look at what the code leaves
has_alias_str_unnamed(town) == is_unnamed_township_str(town)

has_alias_str(town) ==
    Val({IF ~is_unnamed_township_str(v) THEN FALSE
         ELSE Len(Sub(re_NON_ALIAS_CHARACTERS, "", v, str_upper(v))) > 0 :
            v \in {town}})

extract_alias_str(town) ==
    Val({IF ~has_alias_str(v) THEN PyNone
         ELSE Some(squish(Sub(re_NON_ALIAS, "", v, str_upper(v)))) :
            v \in {town}})

clean_township_str(town) ==
    Val({IF ~is_unnamed_township_str(v) THEN v
         ELSE Join(SelectSeq(<<extract_alias_str(v).str, clean_code_str(v)>>,
                             LAMBDA name : name # ""), " ") :
            v \in {town}})

strip_suffix_str(town) == Val({Sub(re_SUFFIX, "", v, str_upper(v)) : v \in {town}})

strip_region_str(town) == Val({Sub(re_LAST_REGION, "", v, str_upper(v)) : v \in {town}})

LowerChar == [c \in Upper |-> Char(LowerLetters, CHOOSE k \in 1..26 : Char(UpperLetters, k) = c)]

RECURSIVE lower_from(_, _)
lower_from(s, i) ==
    IF i > Len(s) THEN ""
    ELSE (IF Char(s, i) \in Upper THEN LowerChar[Char(s, i)] ELSE Char(s, i))
         \o lower_from(s, i + 1)

\* str.lower
str_lower(s) == Val({lower_from(v, 1) : v \in {s}})

HasChar(s, set) == \E k \in 1..Len(s) : Char(s, k) \in set

\* utils.strings.match_case: the case of the original, when it is uniform,
\* is copied onto the new string
match_case(new, original) ==
    Val({IF HasChar(o, Upper) /\ ~HasChar(o, Lower) THEN str_upper(new)
         ELSE IF HasChar(o, Lower) /\ ~HasChar(o, Upper) THEN str_lower(new)
         ELSE new :
            o \in {original}})

\* utils.strings.replace_all: re.sub of every entry of the table in turn;
\* fold says that the patterns of the table ignore case
RECURSIVE replace_from(_, _, _, _)
replace_from(table, n, s, fold) ==
    IF n > Len(table) THEN s
    ELSE Val({replace_from(table, n + 1, v, fold) :
                 v \in {Sub(table[n].pattern, table[n].repl, s,
                            IF fold THEN str_upper(s) ELSE s)}})

replace_all_str(table, s, fold) ==
    Val({replace_from(t, 1, v, fold) : t \in {table}, v \in {s}})

\* the town of "<geotype> of <town>" with the abbreviation of the geotype
gnis_name(town) ==
    Val({IF MatchAt(re_GNIS, u, 1).start = 0 THEN town
         ELSE Join(SelectSeq(<<gnis_town(u), gnis_suffix(u)>>, LAMBDA name : name # ""), " ") :
            u \in {str_upper(town)}})

normalize_suffix_str(town) ==
    Val({match_case(replace_all_str(re_SUFFIX_REPLACEMENTS, gnis_name(v), TRUE), v) :
            v \in {town}})

strip_town_str(town) ==
    Val({match_case(
             Val({Sub(re_INVALID_PUNCTUATION, "", a, str_upper(a)) :
                     a \in {Val({Sub(re_VALID_AMPERSANDS, "and", w, str_upper(w)) :
                                    w \in {normalize_whitespace(v)}})}}),
             v) :
            v \in {town}})

clean_town_str(town) ==
    normalize_whitespace(clean_township_str(normalize_suffix_str(strip_town_str(town))))

map_clean_town(towns) == Val({[n \in DOMAIN t |-> clean_town_str(t[n])] : t \in {towns}})

---------------------------------------------------------------------------
(* elections.py: ResultString *)

literal_table(pairs) ==
    [n \in DOMAIN pairs |-> [pattern |-> Lit(pairs[n][1]), repl |-> pairs[n][2]]]

KNOWN_TYPOS ==
    literal_table(<<
        <<"MARIONTWP", "MARION TWP">>,
        <<"PISCATAQUS", "PISCATAQUIS">>,
        <<"ORNVEILLE", "ORNEVILLE">>,
        <<"EDUMUNDS", "EDMUNDS">>,
        <<"SILIVER RIDGE", "SILVER RIDGE">>,
        <<"FRANKLIN/T9 T10 SD", "FRANKLIN/T9 SD/T10 SD">>,
        <<"PLEASANT POINT VOTING DISTRICT RICT", "PLEASANT POINT VOTING DISTRICT">> >>)

AMBIGUOUS_GROUP_NAMES ==
    <<[pattern |-> Cat(<<Bol, Lit("PENOBSCOT TWPS"), Eol>>),
       repl |-> "MILLINOCKET PENOBSCOT TWPS"],
      [pattern |-> Cat(<<Bol, Lit("PISCATAQUIS TWPS"), Eol>>),
       repl |-> "MILLINOCKET PISCATAQUIS TWPS"],
      [pattern |-> Cat(<<Lit("PEN"), Opt(Lit("OBSCOT")), Lit(" TWP"), Eol>>),
       repl |-> "PENOBSCOT TWPS"],
      [pattern |-> Cat(<<Lit("PIS"), Opt(Lit("CATAQUIS")), Lit(" TWP"), Eol>>),
       repl |-> "PISCATAQUIS TWPS"]>>

_fix_known_typos(result_str) == replace_all_str(KNOWN_TYPOS, result_str, FALSE)

_rename_ambiguous_groups(result_str) == replace_all_str(AMBIGUOUS_GROUP_NAMES, result_str, FALSE)

_drop_non_meaningful_chars(result_str) ==
    Val({Sub(re_DROP_CHARACTERS, "", result, result) :
            result \in {Val({Sub(re_VALID_AMPERSANDS, "AND", w, str_upper(w)) :
                               w \in {normalize_whitespace(result_str)}})}})

\* dict(zip(townships, cleaned)) as a replacement table: the codes found in
\* the string are the keys
code_table(townships) ==
    Val({[n \in DOMAIN t |-> [pattern |-> Lit(t[n]), repl |-> clean_code_str(t[n])]] :
            t \in {townships}})

clean_codes(towns) ==
    Val({replace_all_str(code_table(FindAll(re_UNNAMED, v, str_upper(v))), v, FALSE) :
            v \in {towns}})

\* ORPHAN_PARENTHESIS_PATTERN.sub('\g<result>', delimit): the pattern spans the
\* whole string, and its result group is all of it but the closing parenthesis
drop_orphan_parenthesis(delimit) ==
    Val({IF MatchAt(re_ORPHAN_PARENTHESIS, d, 1).start # 0 THEN SubSeq(d, 1, Len(d) - 1) ELSE d :
            d \in {delimit}})

_normalize_delimiters(result_str) ==
    Val({drop_orphan_parenthesis(Sub(re_NONSTANDARD_DELIMITER, STANDARD_DELIMITER, v,
                                     str_upper(v))) :
            v \in {result_str}})

normalized_string(raw_string) ==
    normalize_whitespace(
        _normalize_delimiters(
            clean_codes(
                _drop_non_meaningful_chars(
                    _rename_ambiguous_groups(
                        _fix_known_typos(str_upper(raw_string)))))))

\* a value or the exception that the call raised
Returns(value) == [error |-> "", value |-> value]

Raises(error) == [error |-> error, value |-> <<>>]

\* a township code and nothing else but punctuation
re_UNNAMED_ONLY == Cat(<<Star(NotIn(Word)), re_UNNAMED, Star(NotIn(Word)), Eol>>)

\* a reading that sets aside only the indicators that are a township code and
\* nothing else
flagged_substrings_code_only(normalized) ==
    Val({SelectSeq(FindAll(re_REGISTRATION, v, str_upper(v)),
                   LAMBDA flagged : MatchAt(re_UNNAMED_ONLY, str_upper(flagged), 1).start = 0) :
            v \in {normalized}})

\* the registration-town indicators of the string that hold no township code
flagged_substrings(normalized) ==
    Val({SelectSeq(FindAll(re_REGISTRATION, v, str_upper(v)),
                   LAMBDA flagged : ~is_unnamed_township_str(flagged)) :
            v \in {normalized}})

\* a reading that settles an ambiguous string on its first indicator
_registration_town_substring_first(normalized) ==
    Val({IF Len(substrings) = 0 THEN Returns(PyNone) ELSE Returns(Some(substrings[1])) :
            substrings \in {flagged_substrings(normalized)}})

_registration_town_substring(normalized) ==
    Val({IF Len(substrings) > 1 THEN Raises("ValueError")
         ELSE IF Len(substrings) = 0 THEN Returns(PyNone)
         ELSE Returns(Some(substrings[1])) :
            substrings \in {flagged_substrings(normalized)}})

registration_town_names(normalized) ==
    Val({IF substring.error # "" THEN substring
         ELSE IF substring.value.null THEN Returns(<<>>)
         ELSE Returns(map_clean_town(Split(substring.value.str, STANDARD_DELIMITER))) :
            substring \in {_registration_town_substring(normalized)}})

\* The substring as the pattern of re.sub: after normalisation the only
\* characters of it that re reads as syntax are parentheses, which group
\* without matching a character; unbalanced ones do not compile.
Count(s, c, k) == Cardinality({j \in 1..k : Char(s, j) = c})

balanced(s) ==
    /\ Count(s, "(", Len(s)) = Count(s, ")", Len(s))
    /\ \A k \in 1..Len(s) : Count(s, ")", k) <= Count(s, "(", k)

re_compile(substring) == Lit(Sub(In({"(", ")"}), "", substring, substring))

reporting_town_names(normalized) ==
    Val({IF substring.error # "" THEN substring
         ELSE IF substring.value.null
         THEN Returns(map_clean_town(Split(v, STANDARD_DELIMITER)))
         ELSE IF ~balanced(substring.value.str) THEN Raises("re.error")
         ELSE Returns(map_clean_town(
                  Split(Sub(re_compile(substring.value.str), "", v, v),
                        STANDARD_DELIMITER))) :
            v \in {normalized}, substring \in {_registration_town_substring(normalized)}})

---------------------------------------------------------------------------
(* elections.py: ReportingUnit *)

UNSPECIFIED_FLAG == "TWPS"

STANDARD_FLAG == "UNSPECIFIED"

MULTI_COUNTY_REGISTRATION_TOWNS == <<"MILLINOCKET">>

\* COUNTIES.sos_county: the county codes of the Secretary of State
SOS_COUNTY == <<"OXF", "PEN", "PIS", "SOM">>

PLURAL == UNSPECIFIED_FLAG

SINGULAR == "TWP"

re_SOS_COUNTY_WORD(code) == Cat(<<Lit(code), Star(In(Word))>>)

re_MULTI_COUNTY_FROM(town, code) ==
    Cat(<<Lit(town), Lit(" "), re_SOS_COUNTY_WORD(code), Lit(" "), Lit(UNSPECIFIED_FLAG)>>)

re_UNSPECIFIED_REGTOWN == Alt([n \in DOMAIN MULTI_COUNTY_REGISTRATION_TOWNS |->
                                  Lit(MULTI_COUNTY_REGISTRATION_TOWNS[n])])

re_UNSPECIFIED_COUNTY == Alt([n \in DOMAIN SOS_COUNTY |-> Lit(SOS_COUNTY[n])])

re_MULTI_COUNTY ==
    Cat(<<re_UNSPECIFIED_REGTOWN, Lit(" "), re_UNSPECIFIED_COUNTY, Star(In(Word)),
          Lit(" "), Lit(UNSPECIFIED_FLAG)>>)

re_PLURAL == Cat(<<WordBoundary, Lit(PLURAL), WordBoundary>>)

re_SINGULAR == Cat(<<WordBoundary, Lit(SINGULAR), WordBoundary>>)

\* the first alternative with which the pattern matches at position i
first_regtown(subject, i) ==
    MULTI_COUNTY_REGISTRATION_TOWNS[
        CHOOSE n \in DOMAIN MULTI_COUNTY_REGISTRATION_TOWNS :
            /\ \E c \in DOMAIN SOS_COUNTY :
                   MatchAt(re_MULTI_COUNTY_FROM(MULTI_COUNTY_REGISTRATION_TOWNS[n],
                                                SOS_COUNTY[c]), subject, i).start # 0
            /\ \A m \in 1..(n - 1) : \A c \in DOMAIN SOS_COUNTY :
                   MatchAt(re_MULTI_COUNTY_FROM(MULTI_COUNTY_REGISTRATION_TOWNS[m],
                                                SOS_COUNTY[c]), subject, i).start = 0]

first_cty(subject, i) ==
    SOS_COUNTY[
        CHOOSE c \in DOMAIN SOS_COUNTY :
            /\ MatchAt(re_MULTI_COUNTY_FROM(first_regtown(subject, i), SOS_COUNTY[c]),
                       subject, i).start # 0
            /\ \A b \in 1..(c - 1) :
                   MatchAt(re_MULTI_COUNTY_FROM(first_regtown(subject, i), SOS_COUNTY[b]),
                           subject, i).start = 0]

\* MULTI_COUNTY_FORMAT expanded on the match at span: the groups regtown and
\* sos_flag as they are written in s, then the county code in brackets
MULTI_COUNTY_FORMAT(s, subject, span) ==
    SubSeq(s, span.start, span.start + Len(first_regtown(subject, span.start)) - 1)
        \o " " \o SubSeq(s, span.end - Len(UNSPECIFIED_FLAG), span.end - 1)
        \o " [" \o SubSeq(s, span.start + Len(first_regtown(subject, span.start)) + 1,
                          span.start + Len(first_regtown(subject, span.start))
                              + Len(first_cty(subject, span.start)))
        \o "]"

\* a reading that leaves the group name as it was joined
_format_unspecified_group_plain(group_name) == group_name

_format_unspecified_group(group_name) ==
    Val({ReplaceSpans(v, spans, [n \in DOMAIN spans |-> MULTI_COUNTY_FORMAT(v, u, spans[n])]) :
            v \in {group_name}, u \in {str_upper(group_name)},
            spans \in {FindSpans(re_MULTI_COUNTY, str_upper(group_name), 1)}})

NonEmpty(strs) == SelectSeq(strs, LAMBDA name : name # "")

group_name_of(registration, reporting) == Join(NonEmpty(registration \o reporting), " ")

matches_multi_county(group_name) ==
    MatchAt(re_MULTI_COUNTY, str_upper(group_name), 1).start # 0

\* a reading that looks for the flag as a whole fragment only when it is the
\* single fragment
has_unspecified_group_single(registration, reporting) ==
    IF Len(registration) > 1 THEN FALSE
    ELSE IF Len(reporting) = 1 /\ Contains(reporting[1], UNSPECIFIED_FLAG) THEN TRUE
    ELSE IF matches_multi_county(group_name_of(registration, reporting)) THEN TRUE
    ELSE FALSE

has_unspecified_group(registration, reporting) ==
    IF Len(registration) > 1 THEN FALSE
    ELSE IF Len(reporting) \in {1, 2} /\ InSeq(UNSPECIFIED_FLAG, reporting) THEN TRUE
    ELSE IF Len(reporting) = 1 /\ Contains(reporting[1], UNSPECIFIED_FLAG) THEN TRUE
    ELSE IF matches_multi_county(group_name_of(registration, reporting)) THEN TRUE
    ELSE FALSE

_format_plural(town, unspecified) ==
    Val({IF unspecified THEN Sub(re_SINGULAR, PLURAL, v, v) ELSE Sub(re_PLURAL, SINGULAR, v, v) :
            v \in {town}})

\* a reading that names the group after the flagged fragments only
_name_unspecified_group_flagged(reporting_towns, registration_towns) ==
    Val({[n \in DOMAIN reporting |->
             IF Contains(reporting[n], UNSPECIFIED_FLAG) THEN group_name ELSE reporting[n]] :
            reporting \in {reporting_towns},
            group_name \in {_format_unspecified_group(
                Join(NonEmpty(<<STANDARD_FLAG>> \o registration_towns
                                  \o SelectSeq(reporting_towns,
                                         LAMBDA town : Contains(town, UNSPECIFIED_FLAG))),
                     " "))}})

_name_unspecified_group(reporting_towns, registration_towns) ==
    Val({[n \in DOMAIN reporting |->
             IF Contains(reporting[n], UNSPECIFIED_FLAG) THEN group_name ELSE reporting[n]] :
            reporting \in {reporting_towns},
            group_name \in {_format_unspecified_group(
                Join(NonEmpty(<<STANDARD_FLAG>> \o registration_towns \o reporting_towns),
                     " "))}})

_format_reporting_towns(reporting_towns, registration_towns, unspecified) ==
    Val({IF unspecified
         THEN _name_unspecified_group(reporting, registration_towns)
         ELSE reporting :
            reporting \in {[n \in DOMAIN reporting_towns |->
                               _format_plural(reporting_towns[n], unspecified)]}})

_classify_fragment(fragment_name) ==
    Val({IF is_unnamed_township_str(v) THEN "UnnamedTownship"
         ELSE IF Contains(v, UNSPECIFIED_FLAG) THEN "UnspecifiedGroup"
         ELSE IF v # "" THEN "NamedTownship"
         ELSE "None" :
            v \in {fragment_name}})

---------------------------------------------------------------------------
(* State machine *)

NoFile == [exists |-> FALSE, towns |-> <<>>]

NoCall == [op |-> "none", db |-> "none", town |-> None, county_fips |-> NoFips,
           cleaned |-> TRUE, result |-> NoTown, name |-> None, error |-> ""]

Db(which) == IF which = "raw" THEN rawdb ELSE yamldb

\* no call made on the functions of elections.py and townships.py
NoUnit == [op |-> "none"]

\* the classes that read the class attribute Municipality.towndb
Classes == {"NamedTownship", "UnnamedTownship"}

\* the threads of the process
Threads == {1, 2}

\* no instance: the class attribute is not cached, the thread holds none
NoInstance == 0

\* a thread that has not read a property yet (first: the access the thread
\* is in, or has finished, is its first)
Idle == [pc |-> "idle", class |-> "none", name |-> None, county_fips |-> NoFips,
         instance |-> NoInstance, db |-> NoDb, result |-> NoTown,
         consensus_name |-> None, error |-> "", first |-> TRUE]

\* nothing of elections.py has run
NoElections ==
    /\ unit = NoUnit
    /\ towndb = [c \in Classes |-> NoInstance]
    /\ heap = <<>>
    /\ thread = [t \in Threads |-> Idle]
    /\ builds = 0

Init ==
    /\ rows = <<>>
    /\ yaml = NoFile
    /\ rawdb = NoDb
    /\ yamldb = NoDb
    /\ call = NoCall
    /\ NoElections

\* a row of townships.json with a geocode of its own
AddRow ==
    /\ call.op = "none"
    /\ ~yaml.exists
    /\ Len(rows) < MaxTowns
    /\ \E n \in RefNames, v \in RefVariants, f \in Counties :
          rows' = Append(rows, [town |-> n.town, geotype |-> n.geotype,
                                town_geocode |-> Len(rows) + 1,
                                county_fips |-> f, gnis_variants |-> v])
    /\ UNCHANGED <<yaml, rawdb, yamldb, call, unit, towndb, heap, thread, builds>>

\* a malformed row: its geocode is missing or repeats an earlier row's
AddCorruptRow ==
    /\ call.op = "none"
    /\ ~yaml.exists
    /\ Len(rows) < MaxTowns
    /\ \E g \in {NoGeocode} \cup {rows[i].town_geocode : i \in DOMAIN rows} :
          rows' = Append(rows, [town |-> Str(<<"A">>, FALSE), geotype |-> "Town",
                                town_geocode |-> g,
                                county_fips |-> 19, gnis_variants |-> {}])
    /\ UNCHANGED <<yaml, rawdb, yamldb, call, unit, towndb, heap, thread, builds>>

\* townships.yaml is present and was not written by save_to_yaml: it lists
\* the towns of the rows as they are before _process_data
ExternalSnapshot ==
    /\ call.op = "none"
    /\ ~yaml.exists
    /\ rows # <<>>
    /\ yaml' = [exists |-> TRUE, towns |-> save_to_yaml(json_load(rows))]
    /\ UNCHANGED <<rows, rawdb, yamldb, call, unit, towndb, heap, thread, builds>>

\* TownDatabase.create_from_raw_data()
CreateFromRawData ==
    /\ rawdb.state = "none"
    /\ ~yaml.exists
    /\ \E db \in {_process_data(json_load(rows))} :
       \E err \in {_validate_data(db.data)} :
          /\ rawdb' = IF err = "" THEN db ELSE rawdb
          /\ call' = [NoCall EXCEPT !.op = "create_from_raw_data", !.db = "raw",
                                    !.error = err]
    /\ UNCHANGED <<rows, yaml, yamldb, unit, towndb, heap, thread, builds>>

\* towndb.save_to_yaml(file_path)
SaveToYaml ==
    /\ rawdb.state = "ok"
    /\ yamldb.state = "none"
    /\ yaml' = [exists |-> TRUE, towns |-> save_to_yaml(rawdb.data)]
    /\ call' = [NoCall EXCEPT !.op = "save_to_yaml", !.db = "raw"]
    /\ UNCHANGED <<rows, rawdb, yamldb, unit, towndb, heap, thread, builds>>

\* TownDatabase.load_from_yaml(file_path)
LoadFromYaml ==
    /\ yaml.exists
    /\ yamldb.state = "none"
    /\ yamldb' = load_from_yaml(yaml.towns)
    /\ call' = [NoCall EXCEPT !.op = "load_from_yaml", !.db = "yaml"]
    /\ UNCHANGED <<rows, yaml, rawdb, unit, towndb, heap, thread, builds>>

\* TownDatabase.build()
Build ==
    /\ rawdb.state = "none"
    /\ yamldb.state = "none"
    /\ IF yaml.exists
       THEN /\ yamldb' = load_from_yaml(yaml.towns)
            /\ call' = [NoCall EXCEPT !.op = "build", !.db = "yaml"]
            /\ UNCHANGED <<rawdb, yaml>>
       ELSE \E db \in {_process_data(json_load(rows))} :
            \E err \in {_validate_data(db.data)} :
               /\ rawdb' = IF err = "" THEN db ELSE rawdb
               /\ yaml' = IF err = ""
                          THEN [exists |-> TRUE, towns |-> save_to_yaml(db.data)]
                          ELSE yaml
               /\ call' = [NoCall EXCEPT !.op = "build", !.db = "raw", !.error = err]
               /\ UNCHANGED yamldb
    /\ UNCHANGED <<rows, unit, towndb, heap, thread, builds>>

\* the gazetteer a process queries: the one built from the raw data until
\* the snapshot has been loaded, the loaded one from then on
Current == IF yamldb.state = "ok" THEN "yaml" ELSE "raw"

\* A lookup changes nothing but the cache of alias_lookup, so a lookup that
\* follows another one reaches no state that the first lookup does not
\* reach: one lookup after each other operation is explored.
Lookups == {"match", "canonical_name"}

\* towndb.match(town, county_fips, cleaned)
Match ==
    /\ Db(Current).state = "ok"
    /\ call.op \notin Lookups
    /\ \E db \in {touch(Db(Current))} :
       \E q \in Queries :
       \E m \in {match(db, q.town, q.county_fips, q.cleaned)} :
          /\ call' = [NoCall EXCEPT !.op = "match", !.db = Current,
                                    !.town = q.town, !.county_fips = q.county_fips,
                                    !.cleaned = q.cleaned, !.result = m]
          /\ rawdb' = IF Current = "raw" THEN db ELSE rawdb
          /\ yamldb' = IF Current = "yaml" THEN db ELSE yamldb
    /\ UNCHANGED <<rows, yaml, unit, towndb, heap, thread, builds>>

\* towndb.canonical_name(town, county_fips)
CanonicalName ==
    /\ Db(Current).state = "ok"
    /\ call.op \notin Lookups
    /\ \E db \in {touch(Db(Current))} :
       \E q \in CanonQueries :
       \E n \in {canonical_name(db, q.town, q.county_fips)} :
          /\ call' = [NoCall EXCEPT !.op = "canonical_name", !.db = Current,
                                    !.town = q.town, !.county_fips = q.county_fips,
                                    !.name = n]
          /\ rawdb' = IF Current = "raw" THEN db ELSE rawdb
          /\ yamldb' = IF Current = "yaml" THEN db ELSE yamldb
    /\ UNCHANGED <<rows, yaml, unit, towndb, heap, thread, builds>>

Next ==
    \/ AddRow
    \/ AddCorruptRow
    \/ ExternalSnapshot
    \/ CreateFromRawData
    \/ SaveToYaml
    \/ LoadFromYaml
    \/ Build
    \/ Match
    \/ CanonicalName

Spec == Init /\ [][Next]_vars

---------------------------------------------------------------------------
(* elections.py: the parsing of a reporting unit *)

\* a cached_property that has not been read, and one that holds a value
NotCached == [cached |-> FALSE, value |-> <<>>]

Cached(value) == [cached |-> TRUE, value |-> value]

\* the result_str handed to from_strings: a string, or by mistake a list
StrInput(str) == [type |-> "str", str |-> str, items |-> <<>>]

ListInput(items) == [type |-> "list", str |-> "", items |-> items]

\* the reporting units of a results file, written as the Secretary of State
\* writes them
RawStrings ==
    {"MOUNT CHASE -- T5 R7 TWP", "T7 SD TWP (STEUBEN)", "CROSS LAKE TWP (T17 R5)",
     "ARGYLE TWP (ALTON, EDINBURG)", "MOUNT CHASE--T5 R7 TWP",
     "HERSEYTOWN, SOLDIERTOWN TWPS (MEDWAY)", "T12/R13 WELS/T9 R8 WELS",
     "FORT KENT/BIG TWENTY TWP/   T15 R15 WELS", "EBEEMEE TWP (T5 R9 NWP), T4 R9 NWP TWP",
     "MILLINOCKET -- PISCATAQUIS TWP", "PISCATAQUIS TWPS (MILLINOCKET)",
     "MILLINOCKET PISCATAQUIS TWPS", "MILLINOCKET/PEN TWPS", "millinocket -- oxford twps",
     "MILLINOCKET,,PEN TWPS", "(MILLINOCKET) PEN TWPS, X", "MILLINOCKET PENOBSCOT TWPS/X",
     "PENOBSCOT TWPS", "PENOBSCOT TWP", "PIS TWP", "FRANKLIN/TWPS", "A/B/TWPS",
     "LEXINGTON/SPRING LAKE TWPS", "SPRING LAKE TWPS", "TWPS (A, B)", "X TWP (A) (B)",
     "A -- B (C)", "A (T5 R7) (B)", "A (B) -- C", "A (AND B)", "A))", "T008 R3",
     "King & Bartlett Twp/ Dover-Foxcroft", "MARIONTWP", "City of Portland", "",
     "MEDWAY TWP (MEDWAY)", "SOLDIERTOWN TWPS (MEDWAY)", "(STEUBEN)", "MEDWAY/",
     "TOWNSHIPS", "A TWP/TWPS", "ATWPS, B", "(MILLINOCKET PEN TWPS) X",
     "A (PRENTISS TWP T7 R3 NBPP)", "ARGYLE TWP -- TWPS"}

\* a list of strings handed to from_strings in place of one string
ListInputs == {<<"FRANKLIN", "TWPS">>, <<"MOUNT CHASE -- T5 R7 TWP">>}

Inputs == {StrInput(str) : str \in RawStrings} \cup {ListInput(items) : items \in ListInputs}

\* the county codes of the results files that are explored
CountyCodes == {"PEN", "PIS"}

\* ReportingUnit(parsed_string=ResultString(result_str), county=County(code=county_code))
ReportingUnit(input, county, derived) ==
    [op |-> "from_strings", input |-> input, county |-> county, derived |-> derived,
     normalized_string |-> NotCached, registration_town_names |-> NotCached,
     reporting_town_names |-> NotCached, has_unspecified_group |-> NotCached,
     reporting_towns |-> NotCached, groups |-> NotCached, error |-> ""]

\* the unit at the start of a call
Calling(u, op) == [u EXCEPT !.op = op, !.error = ""]

\* ResultString.normalized_string: str.upper, the first step, raises on a list
read_normalized_string(u) ==
    IF u.error # "" \/ u.normalized_string.cached THEN u
    ELSE IF u.input.type # "str" THEN [u EXCEPT !.error = "TypeError"]
    ELSE [u EXCEPT !.normalized_string = Cached(normalized_string(u.input.str))]

\* ResultString.registration_town_names
read_registration_town_names(u) ==
    Val({IF n.error # "" \/ n.registration_town_names.cached THEN n
         ELSE Val({IF names.error # "" THEN [n EXCEPT !.error = names.error]
                   ELSE [n EXCEPT !.registration_town_names = Cached(names.value)] :
                      names \in {registration_town_names(n.normalized_string.value)}}) :
            n \in {read_normalized_string(u)}})

\* ResultString.reporting_town_names
read_reporting_town_names(u) ==
    Val({IF n.error # "" \/ n.reporting_town_names.cached THEN n
         ELSE Val({IF names.error # "" THEN [n EXCEPT !.error = names.error]
                   ELSE [n EXCEPT !.reporting_town_names = Cached(names.value)] :
                      names \in {reporting_town_names(n.normalized_string.value)}}) :
            n \in {read_normalized_string(u)}})

\* ReportingUnit.has_unspecified_group: reads the reporting names, then the
\* registration names
read_has_unspecified_group(u) ==
    Val({IF n.error # "" \/ n.has_unspecified_group.cached THEN n
         ELSE [n EXCEPT !.has_unspecified_group =
                   Cached(has_unspecified_group(n.registration_town_names.value,
                                                n.reporting_town_names.value))] :
            n \in {read_registration_town_names(read_reporting_town_names(u))}})

\* ResultClass(name, self.county); the class of an empty fragment is None,
\* and calling it raises
reporting_objects(names, county) ==
    [n \in DOMAIN names |->
        [class |-> _classify_fragment(names[n]), name |-> names[n], county |-> county]]

\* ReportingUnit.reporting_towns
read_reporting_towns(u) ==
    Val({IF n.error # "" \/ n.reporting_towns.cached THEN n
         ELSE Val({IF \E k \in DOMAIN objects : objects[k].class = "None"
                   THEN [n EXCEPT !.error = "TypeError"]
                   ELSE [n EXCEPT !.reporting_towns = Cached(objects)] :
                      objects \in {reporting_objects(
                          _format_reporting_towns(n.reporting_town_names.value,
                                                  n.registration_town_names.value,
                                                  n.has_unspecified_group.value),
                          n.county)}}) :
            n \in {read_has_unspecified_group(u)}})

\* FORMATTED_GROUP_PATTERN.match(self.name): the end of the group regtown,
\* 0 without a match
_format_match(name) ==
    Val({IF ends = <<>> THEN 0 ELSE ends[1] :
            ends \in {Ends(Cat(<<Lit(STANDARD_FLAG \o " "), Plus(AnyChar),
                                 Ahead(Lit(" " \o UNSPECIFIED_FLAG))>>),
                           str_upper(name), 1)}})

\* UnspecifiedGroup.group_registration_town
group_registration_town(object) ==
    IF _format_match(object.name) = 0 THEN Raises("AttributeError")
    ELSE Returns(SubSeq(object.name, Len(STANDARD_FLAG) + 2, _format_match(object.name) - 1))

\* the group cty of the match: the code in brackets after the flag, "" for None
bracketed_county(name, end) ==
    Val({IF m.start = 0 THEN "" ELSE SubSeq(name, m.start + 2, m.end - 2) :
            m \in {MatchAt(Cat(<<Lit(" ["), re_UNSPECIFIED_COUNTY, Lit("]")>>),
                           str_upper(name), end + 1 + Len(UNSPECIFIED_FLAG))}})

\* UnspecifiedGroup.group_county
group_county(object) ==
    IF _format_match(object.name) = 0 THEN Raises("AttributeError")
    ELSE IF bracketed_county(object.name, _format_match(object.name)) # ""
    THEN Returns(bracketed_county(object.name, _format_match(object.name)))
    ELSE Returns(object.county)

\* an object of another class has no group properties
NoGroup == [group_registration_town |-> "", group_county |-> ""]

\* object.group_registration_town.name and object.group_county.code of every
\* UnspecifiedGroup of the list
group_properties(objects) ==
    [k \in DOMAIN objects |->
        IF objects[k].class # "UnspecifiedGroup" THEN Returns(NoGroup)
        ELSE Val({IF town.error # "" THEN town
                  ELSE IF county.error # "" THEN county
                  ELSE Returns([group_registration_town |-> town.value,
                                group_county |-> county.value]) :
                     town \in {group_registration_town(objects[k])},
                     county \in {group_county(objects[k])}})]

\* the group properties of the unit's reporting towns, read in turn
read_group_properties(u) ==
    Val({IF n.error # "" \/ n.groups.cached THEN n
         ELSE Val({IF \E k \in DOMAIN groups : groups[k].error # ""
                   THEN [n EXCEPT !.error = "AttributeError"]
                   ELSE [n EXCEPT !.groups =
                             Cached([k \in DOMAIN groups |-> groups[k].value])] :
                      groups \in {group_properties(n.reporting_towns.value)}}) :
            n \in {read_reporting_towns(u)}})

\* the towns and townships of this model stay at their initial values
NoGazetteer ==
    /\ rows = <<>>
    /\ yaml = NoFile
    /\ rawdb = NoDb
    /\ yamldb = NoDb
    /\ call = NoCall
    /\ towndb = [c \in Classes |-> NoInstance]
    /\ heap = <<>>
    /\ thread = [t \in Threads |-> Idle]
    /\ builds = 0

ParseInit ==
    /\ NoGazetteer
    /\ unit = NoUnit

\* ReportingUnit.from_strings(result_str, county_code)
FromStrings ==
    /\ \E input \in Inputs, county \in CountyCodes :
          unit' = ReportingUnit(input, county, FALSE)
    /\ UNCHANGED <<rows, yaml, rawdb, yamldb, call, towndb, heap, thread, builds>>

\* unit.parsed_string.normalized_string
NormalizedString ==
    /\ unit # NoUnit
    /\ unit' = read_normalized_string(Calling(unit, "normalized_string"))
    /\ UNCHANGED <<rows, yaml, rawdb, yamldb, call, towndb, heap, thread, builds>>

\* ReportingUnit.from_strings(unit.parsed_string.normalized_string, county_code)
FromNormalizedString ==
    /\ unit # NoUnit
    /\ unit.normalized_string.cached
    /\ unit' = ReportingUnit(StrInput(unit.normalized_string.value), unit.county, TRUE)
    /\ UNCHANGED <<rows, yaml, rawdb, yamldb, call, towndb, heap, thread, builds>>

\* unit.registration_towns
RegistrationTowns ==
    /\ unit # NoUnit
    /\ unit' = read_registration_town_names(Calling(unit, "registration_towns"))
    /\ UNCHANGED <<rows, yaml, rawdb, yamldb, call, towndb, heap, thread, builds>>

\* unit.parsed_string.reporting_town_names
ReportingTownNames ==
    /\ unit # NoUnit
    /\ unit' = read_reporting_town_names(Calling(unit, "reporting_town_names"))
    /\ UNCHANGED <<rows, yaml, rawdb, yamldb, call, towndb, heap, thread, builds>>

\* unit.has_unspecified_group
HasUnspecifiedGroup ==
    /\ unit # NoUnit
    /\ unit' = read_has_unspecified_group(Calling(unit, "has_unspecified_group"))
    /\ UNCHANGED <<rows, yaml, rawdb, yamldb, call, towndb, heap, thread, builds>>

\* unit.reporting_towns
ReportingTowns ==
    /\ unit # NoUnit
    /\ unit' = read_reporting_towns(Calling(unit, "reporting_towns"))
    /\ UNCHANGED <<rows, yaml, rawdb, yamldb, call, towndb, heap, thread, builds>>

\* object.group_registration_town and object.group_county, for each
\* UnspecifiedGroup object of unit.reporting_towns
GroupProperties ==
    /\ unit # NoUnit
    /\ unit' = read_group_properties(Calling(unit, "group_properties"))
    /\ UNCHANGED <<rows, yaml, rawdb, yamldb, call, towndb, heap, thread, builds>>

ParseNext ==
    \/ FromStrings
    \/ NormalizedString
    \/ FromNormalizedString
    \/ RegistrationTowns
    \/ ReportingTownNames
    \/ HasUnspecifiedGroup
    \/ ReportingTowns
    \/ GroupProperties

ParseSpec == ParseInit /\ [][ParseNext]_vars

---------------------------------------------------------------------------
(* elections.py: the ResultGeo objects and the class attribute towndb *)

\* a row of townships.json
Row(town, geotype, town_geocode, county_fips, gnis_variants) ==
    [town |-> town, geotype |-> geotype, town_geocode |-> town_geocode,
     county_fips |-> county_fips, gnis_variants |-> gnis_variants]

\* the contents of townships.json that are explored
Datasets ==
    {<<Row(Str(<<"A">>, FALSE), "Town", 1, 19, {})>>,
     <<Row(Str(<<"A">>, FALSE), "Town", 1, 19, {}),
       Row(Str(<<"T7">>, TRUE), "Unorganized Township", 2, 19,
           {Str(<<"B", "TWP", "T7">>, FALSE)})>>}

\* the names of the fragments of a parsed unit that are explored
GeoNames == {<<"A">>, <<"Z">>, <<"T7">>, <<"T4">>, <<"Z", "T4">>,
             <<"B", "TWP", "T7">>, <<"UNSPECIFIED", "A", "TWPS">>}

\* the class _classify_fragment gives the object of a fragment
ResultGeoClass(name) ==
    IF is_unnamed_township(name) THEN "UnnamedTownship"
    ELSE IF \E i \in DOMAIN name.toks : name.toks[i] = "TWPS" THEN "UnspecifiedGroup"
    ELSE "NamedTownship"

\* the objects of reporting_towns and registration_towns
ResultGeo(name, county_fips) ==
    [class |-> ResultGeoClass(name), name |-> name, county_fips |-> county_fips]

ResultGeos == {ResultGeo(Str(t, TRUE), 19) : t \in GeoNames}

\* NamedTownship.matched_town
NamedTownship_matched_town(db, name, county_fips) ==
    Returns(match(db, name, county_fips, TRUE))

\* UnnamedTownship.matched_town: the name, the code, then the alias, which
\* is None when the name holds no alias (town.upper() of match then raises)
UnnamedTownship_matched_town(db, name, county_fips) ==
    IF match(db, name, county_fips, TRUE) # NoTown
    THEN Returns(match(db, name, county_fips, TRUE))
    ELSE IF match(db, clean_code(name), county_fips, TRUE) # NoTown
    THEN Returns(match(db, clean_code(name), county_fips, TRUE))
    ELSE IF ~has_alias(name) THEN Raises("AttributeError")
    ELSE Returns(match(db, extract_alias(name), county_fips, TRUE))

matched_town(db, class, name, county_fips) ==
    IF class = "NamedTownship"
    THEN NamedTownship_matched_town(db, name, county_fips)
    ELSE UnnamedTownship_matched_town(db, name, county_fips)

\* consensus_name: canonical_name or self.name
consensus_name(db, matched, name) ==
    IF matched # NoTown THEN TownOf(db, matched).name ELSE name

\* townships.json is installed; townships.yaml may have been written by an
\* earlier process
ElectionsInit ==
    /\ rows \in Datasets
    /\ yaml \in {NoFile,
                 [exists |-> TRUE,
                  towns |-> save_to_yaml(_process_data(json_load(rows)).data)]}
    /\ rawdb = NoDb
    /\ yamldb = NoDb
    /\ call = NoCall
    /\ NoElections

\* a thread reads consensus_name of an object.  UnspecifiedGroup returns its
\* name.  The other classes read matched_town, which reads self.towndb:
\* cache(f) is looked up with the object's class as the key
ConsensusName ==
    /\ \E t \in Threads, o \in ResultGeos :
          /\ thread[t].pc \in {"idle", "done"}
          /\ thread' = [thread EXCEPT ![t] =
                [Idle EXCEPT !.first = (thread[t].pc = "idle"),
                             !.class = o.class,
                             !.name = o.name,
                             !.county_fips = o.county_fips,
                             !.pc = IF o.class = "UnspecifiedGroup" THEN "done"
                                    ELSE IF towndb[o.class] # NoInstance THEN "lookup"
                                    ELSE "build",
                             !.instance = IF o.class = "UnspecifiedGroup" THEN NoInstance
                                          ELSE towndb[o.class],
                             !.consensus_name = IF o.class = "UnspecifiedGroup"
                                                THEN o.name ELSE None]]
    /\ UNCHANGED <<rows, yaml, rawdb, yamldb, call, unit, towndb, heap, builds>>

\* the cache missed: TownDatabase.build() up to the return of
\* load_from_yaml or of create_from_raw_data
TownDatabaseBuild ==
    /\ \E t \in Threads :
          /\ thread[t].pc = "build"
          /\ builds' = builds + 1
          /\ IF yaml.exists
             THEN /\ heap' = Append(heap, load_from_yaml(yaml.towns))
                  /\ thread' = [thread EXCEPT ![t].pc = "store",
                                              ![t].instance = Len(heap) + 1]
             ELSE \E db \in {_process_data(json_load(rows))} :
                  \E err \in {_validate_data(db.data)} :
                     /\ heap' = heap
                     /\ thread' = [thread EXCEPT
                            ![t].pc = IF err = "" THEN "save" ELSE "done",
                            ![t].db = IF err = "" THEN db ELSE NoDb,
                            ![t].error = err]
    /\ UNCHANGED <<rows, yaml, rawdb, yamldb, call, unit, towndb>>

\* towndb.save_to_yaml(file_path) and the return of build()
TownDatabaseSave ==
    /\ \E t \in Threads :
          /\ thread[t].pc = "save"
          /\ yaml' = [exists |-> TRUE, towns |-> save_to_yaml(thread[t].db.data)]
          /\ heap' = Append(heap, thread[t].db)
          /\ thread' = [thread EXCEPT ![t].pc = "store",
                                      ![t].db = NoDb,
                                      ![t].instance = Len(heap) + 1]
    /\ UNCHANGED <<rows, rawdb, yamldb, call, unit, towndb, builds>>

\* cache(f) stores the value f returned under the class and returns it
CacheStore ==
    /\ \E t \in Threads :
          /\ thread[t].pc = "store"
          /\ towndb' = [towndb EXCEPT ![thread[t].class] = thread[t].instance]
          /\ thread' = [thread EXCEPT ![t].pc = "lookup"]
    /\ UNCHANGED <<rows, yaml, rawdb, yamldb, call, unit, heap, builds>>

\* matched_town on the instance the thread holds, then consensus_name
MatchedTown ==
    /\ \E t \in Threads :
          /\ thread[t].pc = "lookup"
          /\ \E db \in {touch(heap[thread[t].instance])} :
             \E m \in {matched_town(db, thread[t].class, thread[t].name,
                                    thread[t].county_fips)} :
                /\ heap' = [heap EXCEPT ![thread[t].instance] = db]
                /\ thread' = [thread EXCEPT
                       ![t].pc = "done",
                       ![t].error = m.error,
                       ![t].result = IF m.error = "" THEN m.value ELSE NoTown,
                       ![t].consensus_name =
                           IF m.error = ""
                           THEN consensus_name(db, m.value, thread[t].name)
                           ELSE None]
    /\ UNCHANGED <<rows, yaml, rawdb, yamldb, call, unit, towndb, builds>>

ElectionsNext ==
    \/ ConsensusName
    \/ TownDatabaseBuild
    \/ TownDatabaseSave
    \/ CacheStore
    \/ MatchedTown

ElectionsSpec == ElectionsInit /\ [][ElectionsNext]_vars

---------------------------------------------------------------------------
(* townships.py: the functions on one town string *)

\* township codes as result files and the gazetteer write them
TownshipCodes == {"T7 R3 NBPP", "T4/R3", "T10SD", "T5-R9 NWP", "T4R9 NWP",
                  "TA R2 WELS", "T08 R03", "T17 R5", "t3 r4 bkp wkr",
                  "T_4 R3", "T008 R3"}

\* what stands before the code, around it and after it
TownshipAliases == {"", "CROSS LAKE TWP ", "Prentiss "}

TownshipBrackets == {<<"", "">>, <<"(", ")">>}

TownshipSuffixes == {"", " TWP", " TWPS"}

\* strings without a code, and codes with text that is not a suffix
OtherTowns == {"", "EBEEMEE TWP", "CROSS LAKE TWP", "R08", "TATWP", "T7TWP",
               "T5, R7", "T7 R3 WELSTWP", "T3 Indian Purchase Twp",
               "T7 R3 NBPP TWP.", "ASHLAND"}

\* the argument town of the functions of townships.py
Towns ==
    {a \o b[1] \o c \o b[2] \o x :
        a \in TownshipAliases, b \in TownshipBrackets, c \in TownshipCodes,
        x \in TownshipSuffixes}
    \cup OtherTowns

\* the record of a call on town
TownCall(op, town, unnamed, alias, code) ==
    [op |-> op, town |-> town, has_alias |-> unnamed, alias |-> alias, code |-> code]

\* a caller holds a town string and has called nothing on it
TownshipInit ==
    /\ NoGazetteer
    /\ unit \in {TownCall("none", town, FALSE, PyNone, "") : town \in Towns}

\* has_alias(town)
HasAlias ==
    /\ unit' = TownCall("has_alias", unit.town, has_alias_str(unit.town), PyNone, "")
    /\ UNCHANGED <<rows, yaml, rawdb, yamldb, call, towndb, heap, thread, builds>>

\* extract_alias(town), with the value of its call of has_alias
ExtractAlias ==
    /\ unit' = TownCall("extract_alias", unit.town, has_alias_str(unit.town),
                        extract_alias_str(unit.town), "")
    /\ UNCHANGED <<rows, yaml, rawdb, yamldb, call, towndb, heap, thread, builds>>

\* clean_code(town)
CleanCode ==
    /\ unit' = TownCall("clean_code", unit.town, FALSE, PyNone,
                        clean_code_str(unit.town))
    /\ UNCHANGED <<rows, yaml, rawdb, yamldb, call, towndb, heap, thread, builds>>

TownshipNext ==
    \/ HasAlias
    \/ ExtractAlias
    \/ CleanCode

TownshipSpec == TownshipInit /\ [][TownshipNext]_vars

---------------------------------------------------------------------------
(* entities.py: the County value and its lookup *)

\* None in the place of a county name or code
NoName == ""

\* data/counties.csv, the columns county_name, sos_county and county_fips of
\* the counties whose codes the docstrings name
COUNTIES ==
    <<[county_name |-> "Oxford", sos_county |-> "OXF", county_fips |-> 17],
      [county_name |-> "Penobscot", sos_county |-> "PEN", county_fips |-> 19],
      [county_name |-> "Piscataquis", sos_county |-> "PIS", county_fips |-> 21],
      [county_name |-> "Somerset", sos_county |-> "SOM", county_fips |-> 25]>>

\* County.lookup: the table of the counties, read once and shared, that maps
\* name, code and fips to one another
lookup == COUNTIES

\* dict(zip(column, to)).get(key): the value of the last row with the key,
\* None without one
zip_get(column, to, key, none) ==
    IF \E n \in DOMAIN lookup : lookup[n][column] = key
    THEN lookup[CHOOSE n \in DOMAIN lookup :
                    /\ lookup[n][column] = key
                    /\ \A m \in DOMAIN lookup : lookup[m][column] = key => m <= n][to]
    ELSE none

code_to_fips(code) == zip_get("sos_county", "county_fips", code, NoFips)

name_to_fips(name) == zip_get("county_name", "county_fips", name, NoFips)

fips_to_code(fips) == zip_get("county_fips", "sos_county", fips, NoName)

name_to_code(name) == zip_get("county_name", "sos_county", name, NoName)

code_to_name(code) == zip_get("sos_county", "county_name", code, NoName)

fips_to_name(fips) == zip_get("county_fips", "county_name", fips, NoName)

\* a or b or c
or_fips(a, b, c) == IF a # NoFips THEN a ELSE IF b # NoFips THEN b ELSE c

or_str(a, b, c) == IF a # NoName THEN a ELSE IF b # NoName THEN b ELSE c

\* the County dataclass
CountyFields(name, code, fips) == [name |-> name, code |-> code, fips |-> fips]

\* a reading that forgets to look the fips up by the name
_assign_missing_attributes_by_code(self) ==
    IF self.name # NoName /\ self.code # NoName /\ self.fips # NoFips THEN self
    ELSE Val({Val({Val({CountyFields(name, code, fips) :
                          name \in {or_str(self.name, fips_to_name(fips), code_to_name(code))}}) :
                     code \in {or_str(self.code, fips_to_code(fips), name_to_code(self.name))}}) :
                fips \in {or_fips(self.fips, code_to_fips(self.code), NoFips)}})

\* County._assign_missing_attributes: the fips first, then the code, then
\* the name, each from the fields as they stand
_assign_missing_attributes(self) ==
    IF self.name # NoName /\ self.code # NoName /\ self.fips # NoFips THEN self
    ELSE Val({Val({Val({CountyFields(name, code, fips) :
                          name \in {or_str(self.name, fips_to_name(fips), code_to_name(code))}}) :
                     code \in {or_str(self.code, fips_to_code(fips), name_to_code(self.name))}}) :
                fips \in {or_fips(self.fips, code_to_fips(self.code),
                                  name_to_fips(self.name))}})

\* the names, codes and fips numbers handed to County(...): those of the
\* table, None, and those of a county of another state
CountyNames == {COUNTIES[n].county_name : n \in DOMAIN COUNTIES} \cup {NoName, "Coos"}

CountyCodeArgs == {COUNTIES[n].sos_county : n \in DOMAIN COUNTIES} \cup {NoName, "COO"}

CountyFips == {COUNTIES[n].county_fips : n \in DOMAIN COUNTIES} \cup {NoFips, 7}

\* County(name, code, fips) before and after __post_init__
CountyCall(op, given, county) == [op |-> op, given |-> given, county |-> county]

\* a caller holds the arguments of County(...)
CountyInit ==
    /\ NoGazetteer
    /\ unit \in {CountyCall("County", CountyFields(name, code, fips),
                            CountyFields(name, code, fips)) :
                    name \in CountyNames, code \in CountyCodeArgs, fips \in CountyFips}

\* County.__post_init__
CountyPostInit ==
    /\ unit.op = "County"
    /\ unit' = CountyCall("__post_init__", unit.given,
                          _assign_missing_attributes(unit.county))
    /\ UNCHANGED <<rows, yaml, rawdb, yamldb, call, towndb, heap, thread, builds>>

CountyNext ==
    \/ CountyPostInit

CountySpec == CountyInit /\ [][CountyNext]_vars

---------------------------------------------------------------------------
(* Vocabulary of the claims *)

\* the alias set generated for row i (TownReference.aliases before pruning)
Generated(i) == json_object_hook(i, rows[i]).aliases

Scopes == {NoFips} \cup Counties

Geocode(db, id) == TownOf(db, id).geocode

\* the gazetteer the recorded call was made on, and its index
CallDb == Db(call.db)

CallRecords == CallDb.records

\* a match call with cleaned left at its default
IsMatchCall == call.op = "match" /\ call.cleaned

\* the candidate forms of the recorded input
Literal == upper(call.town)

DerivedCode == lazy_get_code(Literal)

DerivedAlias == lazy_get_alias(Literal)

\* the form resolves to a record, state-wide or in the given county
Resolves(records, name, county_fips) ==
    /\ Truthy(name)
    /\ \/ get(records, TownAlias(name, NoFips)) # NoTown
       \/ /\ county_fips # NoFips
          /\ get(records, TownAlias(name, county_fips)) # NoTown

\* the snapshot that was loaded is the one saved from the gazetteer built
\* from the raw rows
Restored ==
    /\ rawdb.state = "ok"
    /\ yamldb.state = "ok"
    /\ yamldb.data = load_from_yaml(save_to_yaml(rawdb.data)).data

---------------------------------------------------------------------------
(* C1 *)

\* the alias is shared by towns of different counties, is no town's
\* canonical name, and yields neither a township code nor a township alias
C1_Ambiguous(a) ==
    /\ \E i, j \in DOMAIN rows :
          /\ rows[i].county_fips # rows[j].county_fips
          /\ a \in Generated(i) \cap Generated(j)
    /\ \A i \in DOMAIN rows : upper(rows[i].town) # a
    /\ clean_code(a) = a
    /\ extract_alias(a) = None

C1_TownsOf(a, f) ==
    {i \in DOMAIN rows : rows[i].county_fips = f /\ a \in Generated(i)}

---------------------------------------------------------------------------
(* C2 *)

\* C2: when the uppercased literal input is a state-wide key of the index,
\* match returns the record of that key, whatever county_fips is and
\* whatever the county key of the same name resolves to.
C2_StateWideHitWins ==
    (IsMatchCall /\ get(CallRecords, TownAlias(Literal, NoFips)) # NoTown) =>
        call.result = get(CallRecords, TownAlias(Literal, NoFips))

\* the county key of the input resolves to another record than the
\* state-wide key
C2_Witness ==
    /\ IsMatchCall
    /\ call.county_fips # NoFips
    /\ get(CallRecords, TownAlias(Literal, NoFips)) # NoTown
    /\ get(CallRecords, TownAlias(Literal, call.county_fips)) # NoTown
    /\ get(CallRecords, TownAlias(Literal, call.county_fips))
          # get(CallRecords, TownAlias(Literal, NoFips))
    /\ call.result = get(CallRecords, TownAlias(Literal, NoFips))

---------------------------------------------------------------------------
(* C3 *)

\* the candidate keys of the recorded input in the order the claim gives
\* them: form by form, the state-wide key then the county key
C3_Forms == <<Literal, DerivedCode, DerivedAlias>>

C3_Candidates ==
    [i \in 1..6 |-> TownAlias(C3_Forms[(i + 1) \div 2],
                              IF i % 2 = 1 THEN NoFips ELSE call.county_fips)]

C3_Hit(i) ==
    /\ Truthy(C3_Candidates[i].name)
    /\ get(CallRecords, C3_Candidates[i]) # NoTown

C3_FirstResolved ==
    IF \A i \in 1..6 : ~C3_Hit(i) THEN NoTown
    ELSE get(CallRecords,
             C3_Candidates[CHOOSE i \in 1..6 :
                              C3_Hit(i) /\ \A j \in 1..6 : C3_Hit(j) => i <= j])

\* the case of the claim: the literal input misses state-wide, its county
\* key resolves to a record, and the state-wide key of the derived code
\* resolves to another record
C3_Case ==
    /\ IsMatchCall
    /\ call.county_fips # NoFips
    /\ get(CallRecords, TownAlias(Literal, NoFips)) = NoTown
    /\ get(CallRecords, TownAlias(Literal, call.county_fips)) # NoTown
    /\ Truthy(DerivedCode)
    /\ get(CallRecords, TownAlias(DerivedCode, NoFips)) # NoTown
    /\ get(CallRecords, TownAlias(DerivedCode, NoFips))
          # get(CallRecords, TownAlias(Literal, call.county_fips))

\* C3, as the code has it: match tries the literal input, then the derived
\* code, then the derived township alias, and for each of them the
\* state-wide key and then the county key, and returns the first key that
\* resolves; when the literal input's county key resolves to A and the
\* derived code's state-wide key to another record B, match returns A.
C3_FormByForm ==
    /\ IsMatchCall => call.result = C3_FirstResolved
    /\ C3_Case => call.result = get(CallRecords, TownAlias(Literal, call.county_fips))

C3_Witness ==
    /\ C3_Case
    /\ call.result = get(CallRecords, TownAlias(Literal, call.county_fips))

\* C3, as the specification states it: the literal input's county key is
\* tried last, so that in the case above match returns B.
C3_CountyKeyLast ==
    C3_Case => call.result = get(CallRecords, TownAlias(DerivedCode, NoFips))

---------------------------------------------------------------------------
(* C4 *)

C4_Unmatched ==
    /\ ~Resolves(CallRecords, Literal, call.county_fips)
    /\ ~Resolves(CallRecords, DerivedCode, call.county_fips)
    /\ ~Resolves(CallRecords, DerivedAlias, call.county_fips)

\* C4: when neither the literal input nor its derived code nor its derived
\* alias resolves to a key of the index, with or without a county, match
\* returns None and canonical_name returns None, and neither raises.
C4_UnmatchedIsNone ==
    (call.op \in Lookups /\ call.cleaned /\ C4_Unmatched) =>
        /\ call.result = NoTown
        /\ call.name = None
        /\ call.error = ""

\* an input with a code and a township alias, looked up with a county on a
\* gazetteer that has towns
C4_Witness ==
    /\ call.op = "canonical_name"
    /\ CallDb.data # <<>>
    /\ call.county_fips # NoFips
    /\ Truthy(DerivedCode)
    /\ Truthy(DerivedAlias)
    /\ C4_Unmatched
    /\ call.name = None

---------------------------------------------------------------------------
(* C5 *)

\* the generated alias sets of all rows
C5_Generated == [i \in DOMAIN rows |-> Generated(i)]

\* the towns that generate the key, given the generated alias sets
C5_Generators(generated, alias) ==
    {i \in DOMAIN rows : /\ alias.name \in generated[i]
                         /\ alias.county_fips \in {NoFips, rows[i].county_fips}}

C5_Canonical(generated, alias) ==
    \E i \in C5_Generators(generated, alias) : upper(rows[i].town) = alias.name

\* the key is in the index of the gazetteer built from the rows
C5_Indexed(alias) == alias \in keys(cached_alias_lookup(rawdb))

\* the gazetteer was just built from the reference rows
C5_Built ==
    /\ call.op \in {"create_from_raw_data", "build"}
    /\ call.db = "raw"
    /\ rawdb.state = "ok"

---------------------------------------------------------------------------
(* C6 *)

\* C6, as the specification states it: after the build every alias that a
\* town keeps resolves to that town, under the state-wide key or under the
\* key of the town's county.
C6_KeptAliasesResolveBack ==
    rawdb.state = "ok" =>
        \A i \in DOMAIN rawdb.data :
            \A a \in rawdb.data[i].aliases :
                \/ get(cached_alias_lookup(rawdb), TownAlias(a, NoFips))
                      = rawdb.data[i].id
                \/ get(cached_alias_lookup(rawdb),
                       TownAlias(a, rawdb.data[i].county_fips)) = rawdb.data[i].id

---------------------------------------------------------------------------
(* C7 *)

C7_BadGeocodes ==
    \/ \E i \in DOMAIN rows : rows[i].town_geocode = NoGeocode
    \/ \E i, j \in DOMAIN rows : i # j /\ rows[i].town_geocode = rows[j].town_geocode

\* C7: when a row has no geocode or two rows share one, building from the
\* raw data raises ValueError and yields no gazetteer, so that no lookup is
\* made on such data.
C7_BadGeocodesRaise ==
    C7_BadGeocodes =>
        /\ rawdb.state = "none"
        /\ (call.op \in {"create_from_raw_data", "build"} /\ call.db = "raw")
              => call.error # ""
        /\ ~(call.op \in Lookups /\ call.db = "raw")

\* all geocodes present, two equal
C7_Witness ==
    /\ call.op = "create_from_raw_data"
    /\ Len(rows) > 1
    /\ \A i \in DOMAIN rows : rows[i].town_geocode # NoGeocode
    /\ call.error = "Non-unique geocodes in source data"
    /\ rawdb.state = "none"

---------------------------------------------------------------------------
(* C8 *)

C8_Valid(data) ==
    /\ \A i \in DOMAIN data : data[i].geocode # NoGeocode
    /\ \A i, j \in DOMAIN data : i # j => data[i].geocode # data[j].geocode

\* C8, as the specification states it: every gazetteer that can be
\* obtained, whether built from the raw data or loaded from the snapshot,
\* has a geocode for every town and no geocode twice.
C8_EveryGazetteerValid ==
    /\ rawdb.state = "ok" => C8_Valid(rawdb.data)
    /\ yamldb.state = "ok" => C8_Valid(yamldb.data)

---------------------------------------------------------------------------
(* C9 *)

\* C9, as the specification states it: the gazetteer restored from the
\* snapshot of a gazetteer built from the raw rows has the same keys in its
\* index, and each key resolves to a town of the same geocode.
C9_RestoredIndexEquivalent ==
    Restored =>
        /\ keys(cached_alias_lookup(yamldb)) = keys(cached_alias_lookup(rawdb))
        /\ \A k \in keys(cached_alias_lookup(rawdb)) :
              get(cached_alias_lookup(yamldb), k) # NoTown =>
                 Geocode(yamldb, get(cached_alias_lookup(yamldb), k))
                    = Geocode(rawdb, get(cached_alias_lookup(rawdb), k))

---------------------------------------------------------------------------
(* C10 *)

\* C10, as the specification states it: a lookup that matches on the
\* gazetteer built from the raw rows matches a town of the same geocode on
\* the gazetteer restored from its snapshot.
C10_RoundTripPreservesMatch ==
    (IsMatchCall /\ call.db = "yaml" /\ Restored) =>
        \A r \in {match(rawdb, call.town, call.county_fips, TRUE)} :
            r # NoTown =>
               /\ call.result # NoTown
               /\ Geocode(yamldb, call.result) = Geocode(rawdb, r)

---------------------------------------------------------------------------
(* C11 *)

\* a string unit on which registration_towns was the last call
C11_Read == unit # NoUnit /\ unit.op = "registration_towns" /\ unit.input.type = "str"

\* the registration indicators of the unit's normalized string
C11_Indicators == flagged_substrings(normalized_string(unit.input.str))

C11_WitnessOne ==
    /\ C11_Read
    /\ Len(C11_Indicators) = 1
    /\ Len(unit.registration_town_names.value) = 2

---------------------------------------------------------------------------
(* C12 *)

\* a unit whose has_unspecified_group was read
C12_Read == unit # NoUnit /\ unit.has_unspecified_group.cached

\* (i) one or two reporting fragments, one of which is the flag
C12_WholeFragment(P) == Len(P) \in {1, 2} /\ \E n \in DOMAIN P : P[n] = UNSPECIFIED_FLAG

\* (ii) a single reporting fragment that holds the flag
C12_InFragment(P) == Len(P) = 1 /\ Contains(P[1], UNSPECIFIED_FLAG)

\* (iii) the names of R then P, joined by blanks, start with a host town, a
\* word that starts with a county code and the flag
C12_MultiCounty(R, P) == matches_multi_county(group_name_of(R, P))

\* C12: has_unspecified_group is false with more than one registration name;
\* otherwise it is true exactly when one of the three conditions holds,
\* whichever is tested first.
C12_UnionOfConditions ==
    C12_Read =>
        \A R \in {unit.registration_town_names.value} :
        \A P \in {unit.reporting_town_names.value} :
            unit.has_unspecified_group.value
                = (/\ Len(R) <= 1
                   /\ \/ C12_MultiCounty(R, P)
                      \/ C12_InFragment(P)
                      \/ C12_WholeFragment(P))

\* each condition decided a unit alone, and two registration names overrode
\* the flag
C12_Witness ==
    /\ C12_Read
    /\ unit.has_unspecified_group.value
    /\ C12_MultiCounty(unit.registration_town_names.value, unit.reporting_town_names.value)
    /\ ~C12_InFragment(unit.reporting_town_names.value)
    /\ ~C12_WholeFragment(unit.reporting_town_names.value)

C12_WitnessWhole ==
    /\ C12_Read
    /\ unit.has_unspecified_group.value
    /\ Len(unit.reporting_town_names.value) = 2
    /\ C12_WholeFragment(unit.reporting_town_names.value)

C12_WitnessTwoRegistrations ==
    /\ C12_Read
    /\ ~unit.has_unspecified_group.value
    /\ Len(unit.registration_town_names.value) = 2
    /\ C12_WholeFragment(unit.reporting_town_names.value)

---------------------------------------------------------------------------
(* C13 *)

\* a unit on which reporting_towns was the last call, its names parsed
C13_Read ==
    /\ unit # NoUnit
    /\ unit.op = "reporting_towns"
    /\ unit.registration_town_names.cached
    /\ unit.reporting_town_names.cached

C13_Hosts == {MULTI_COUNTY_REGISTRATION_TOWNS[n] : n \in DOMAIN MULTI_COUNTY_REGISTRATION_TOWNS}

C13_Codes == {SOS_COUNTY[n] : n \in DOMAIN SOS_COUNTY}

\* the host town is the registration town or leads the single reporting
\* fragment, and a word that starts with the county code and the flag follow
C13_Case(R, P, host, code) ==
    /\ Len(P) = 1
    /\ R \in {<<>>, <<host>>}
    /\ MatchAt(Cat(<<re_MULTI_COUNTY_FROM(host, code), Eol>>), Join(R \o P, " "), 1).start # 0

C13_GroupName(host, code) ==
    STANDARD_FLAG \o " " \o host \o " " \o UNSPECIFIED_FLAG \o " [" \o code \o "]"

\* C13: a host town followed by a county word and the flag is detected as an
\* unspecified group, and the reporting towns are the one group fragment
\* "UNSPECIFIED <host> TWPS [<code>]", whose registration town is the host
\* and whose county is the county of the code.
C13_MultiCountyGroup ==
    C13_Read =>
        \A R \in {unit.registration_town_names.value} :
        \A P \in {unit.reporting_town_names.value} :
        \A host \in C13_Hosts, code \in C13_Codes :
            C13_Case(R, P, host, code) =>
                /\ unit.error = ""
                /\ unit.has_unspecified_group.cached
                /\ unit.has_unspecified_group.value
                /\ unit.reporting_towns.cached
                /\ Len(unit.reporting_towns.value) = 1
                /\ unit.reporting_towns.value[1].class = "UnspecifiedGroup"
                /\ unit.reporting_towns.value[1].name = C13_GroupName(host, code)
                /\ group_registration_town(unit.reporting_towns.value[1]) = Returns(host)
                /\ group_county(unit.reporting_towns.value[1]) = Returns(code)

\* the host as registration town of a group of another county than the
\* unit's, and the host leading the reporting fragment
C13_Witness ==
    /\ C13_Read
    /\ unit.county = "PEN"
    /\ C13_Case(unit.registration_town_names.value, unit.reporting_town_names.value,
                "MILLINOCKET", "PIS")
    /\ unit.registration_town_names.value = <<"MILLINOCKET">>
    /\ unit.reporting_towns.cached

C13_WitnessLeading ==
    /\ C13_Read
    /\ C13_Case(unit.registration_town_names.value, unit.reporting_town_names.value,
                "MILLINOCKET", "PIS")
    /\ unit.registration_town_names.value = <<>>
    /\ unit.reporting_towns.cached

---------------------------------------------------------------------------
(* C15 *)

\* a unit made from the normalized string of another, its own normalized
\* string read
C15_Renormalized ==
    /\ unit # NoUnit
    /\ unit.derived
    /\ unit.normalized_string.cached

\* C15, as the specification states it: normalization is idempotent, the
\* normalized string of a normalized string is that string.
C15_NormalizationIdempotent ==
    C15_Renormalized => unit.normalized_string.value = unit.input.str

---------------------------------------------------------------------------
(* C18 *)

\* C18, as the specification states it: a reporting-unit input that is not
\* a single string is rejected at the boundary, from_strings never returns a
\* unit for it.
C18_NonStringRejected ==
    unit # NoUnit => unit.input.type = "str"

---------------------------------------------------------------------------
(* C14 *)

\* a thread has finished reading consensus_name of an object
C14_Read(t) == thread[t].pc = "done" /\ thread[t].class # "none"

\* the record the lookup of the object finds: by its name, its code or its
\* alias text
C14_Found(t) ==
    first_match(
        [i \in 1..3 |->
            IF thread[t].class = "UnspecifiedGroup" THEN NoTown
            ELSE IF i = 1 \/ thread[t].class = "NamedTownship"
            THEN match(heap[thread[t].instance], thread[t].name,
                       thread[t].county_fips, TRUE)
            ELSE IF i = 2
            THEN match(heap[thread[t].instance], clean_code(thread[t].name),
                       thread[t].county_fips, TRUE)
            ELSE IF has_alias(thread[t].name)
            THEN match(heap[thread[t].instance], extract_alias(thread[t].name),
                       thread[t].county_fips, TRUE)
            ELSE NoTown])

\* C14: consensus_name of every object the parser produces, of every class,
\* returns without raising: the canonical name of the matched record when
\* the gazetteer lookup finds one, the raw name unchanged otherwise, also
\* for an UnnamedTownship without alias text whose name and code match
\* nothing.
C14_ConsensusNameTotal ==
    \A t \in Threads :
        C14_Read(t) =>
            /\ thread[t].error = ""
            /\ thread[t].consensus_name =
                   IF C14_Found(t) # NoTown
                   THEN TownOf(heap[thread[t].instance], C14_Found(t)).name
                   ELSE thread[t].name

---------------------------------------------------------------------------
(* C16 *)

\* only one thread of the process has read anything
C16_OneThread == thread[2] = Idle

\* C16: over any sequence of reads of matched_town / consensus_name on
\* NamedTownship and UnnamedTownship objects in one thread,
\* TownDatabase.build() runs at most once and the objects of both classes
\* use the same gazetteer instance.
C16_BuiltOncePerProcess ==
    C16_OneThread =>
        /\ builds <= 1
        /\ \A c, d \in Classes :
              towndb[c] # NoInstance /\ towndb[d] # NoInstance
                  => towndb[c] = towndb[d]

---------------------------------------------------------------------------
(* C17 *)

\* both threads are past the towndb of their first read, of the same class
C17_BothFirst ==
    /\ \A t \in Threads : thread[t].first /\ thread[t].pc \in {"lookup", "done"}
                          /\ thread[t].error = ""
    /\ thread[1].class = thread[2].class
    /\ thread[1].class \in Classes

\* C17: when two threads read the gazetteer for the first time, under every
\* interleaving the build step has run exactly once and both threads hold
\* the same gazetteer instance.
C17_BuiltOnceUnderConcurrency ==
    C17_BothFirst =>
        /\ builds = 1
        /\ thread[1].instance = thread[2].instance

---------------------------------------------------------------------------
(* C19 *)

\* a code, an optional word TWP or TWPS after it, and besides them only
\* blanks and punctuation
C19_CodeOnlyPattern ==
    Cat(<<Bol, Star(NotIn(Letters \cup Digits)), re_UNNAMED,
          Opt(Cat(<<Plus(NotIn(Letters \cup Digits)), Lit("TWP"), Opt(Lit("S"))>>)),
          Star(NotIn(Letters \cup Digits)), Eol>>)

C19_CodeOnly(town) == Ends(C19_CodeOnlyPattern, str_upper(town), 1) # <<>>

C19_Called == unit # NoUnit /\ unit.op \in {"has_alias", "extract_alias"}

\* C19: for a string that holds a township code and besides it only an
\* optional TWP / TWPS suffix, blanks and punctuation, has_alias is false
\* and extract_alias is None; and for every string extract_alias is None
\* exactly when has_alias is false.
C19_NoAliasInBareCode ==
    C19_Called =>
        /\ C19_CodeOnly(unit.town) =>
              /\ ~unit.has_alias
              /\ unit.op = "extract_alias" => unit.alias = PyNone
        /\ unit.op = "extract_alias" => (unit.alias.null <=> ~unit.has_alias)

C19_Witness ==
    /\ C19_Called
    /\ unit.op = "extract_alias"
    /\ unit.town = "T7 R3 NBPP TWP"
    /\ C19_CodeOnly(unit.town)
    /\ unit.alias = PyNone

C19_WitnessAlias ==
    /\ C19_Called
    /\ unit.op = "extract_alias"
    /\ unit.town = "CROSS LAKE TWP (T17 R5)"
    /\ ~C19_CodeOnly(unit.town)
    /\ unit.has_alias
    /\ unit.alias = Some("CROSS LAKE TWP")

---------------------------------------------------------------------------
(* C20 *)

C20_Called == unit # NoUnit /\ unit.op = "clean_code"

\* the township, range and region tokens of town
C20_Tokens(town) == FindAll(re_UNNAMED_ELEMENTS, town, str_upper(town))

\* the zero at position k of token stands before a digit, after a character
\* that is not a digit
C20_ZeroAfterNonDigit(token, k) ==
    /\ Char(token, k) = "0"
    /\ k > 1 /\ Char(token, k - 1) \notin Digits
    /\ k < Len(token) /\ Char(token, k + 1) \in Digits

\* the zero at position k of token stands before a digit, and the digits
\* before it are zeroes
C20_LeadingZero(token, k) ==
    /\ Char(token, k) = "0"
    /\ k < Len(token) /\ Char(token, k + 1) \in Digits
    /\ \A j \in 1..k :
          (\A m \in j..k : Char(token, m) \in Digits) => Char(token, j) = "0"

\* token without its characters that are not letters, digits or
\* underscores and without the zeroes that follow a non-digit
C20_WordCharacters(token) ==
    Concat([k \in 1..Len(token) |->
               IF Char(token, k) \in Word /\ ~C20_ZeroAfterNonDigit(token, k)
               THEN Char(token, k) ELSE ""], 1, Len(token))

\* token without its non-alphanumeric characters and its leading zeroes
C20_Alphanumerics(token) ==
    Concat([k \in 1..Len(token) |->
               IF Char(token, k) \in Letters \cup Digits /\ ~C20_LeadingZero(token, k)
               THEN Char(token, k) ELSE ""], 1, Len(token))

C20_HasCode(town) == Search(re_UNNAMED, str_upper(town), 1).start # 0

C20_WitnessUnseparated ==
    /\ C20_Called
    /\ unit.town = "T10SD"
    /\ unit.code = "T10 SD"

C20_WitnessUnchanged ==
    /\ C20_Called
    /\ unit.town = "EBEEMEE TWP"
    /\ unit.code = "EBEEMEE TWP"

---------------------------------------------------------------------------
(* C21 *)

\* the gazetteers that exist: the built one, the loaded one
C21_Databases == {db \in {rawdb, yamldb} : db.state = "ok"}

---------------------------------------------------------------------------
(* C30 *)

\* the entry points to a town of its scope that still lists the alias
C30_Sound(db, entry) ==
    /\ entry.alias.county_fips \in {NoFips, TownOf(db, entry.town).county_fips}
    /\ entry.alias.name \in TownOf(db, entry.town).aliases

\* the names match tries for the recorded call
C30_Names ==
    Range(names_of(IF call.cleaned THEN upper(call.town)
                   ELSE clean_town(upper(call.town))))

\* C30: in every gazetteer each entry (a, s) -> T of the alias index has
\* s = None or s = T.county.fips, and a is one of the aliases T keeps after
\* the pruning of duplicate aliases; the record match returns lists one of
\* the forms of the input among its aliases.
C30_IndexSound ==
    /\ \A db \in {d \in {rawdb, yamldb} : d.state = "ok"} :
          \A entry \in cached_alias_lookup(db) : C30_Sound(db, entry)
    /\ call.op = "match" /\ call.result # NoTown =>
          \E name \in C30_Names : name \in TownOf(CallDb, call.result).aliases

\* a built gazetteer with an alias of two counties: indexed under a county
\* only, pruned nowhere, and a match that was found through the index
C30_Witness ==
    /\ rawdb.state = "ok"
    /\ \E entry \in cached_alias_lookup(rawdb) :
          /\ entry.alias.county_fips # NoFips
          /\ TownAlias(entry.alias.name, NoFips) \notin keys(cached_alias_lookup(rawdb))
          /\ C30_Sound(rawdb, entry)
    /\ \E town \in Range(rawdb.data) : town.aliases # Generated(town.id)
    /\ call.op = "match"
    /\ call.db = "raw"
    /\ call.result # NoTown

---------------------------------------------------------------------------
(* C23 *)

\* a string unit whose reporting town names were read without an exception
C23_Read ==
    /\ unit # NoUnit
    /\ unit.op = "reporting_town_names"
    /\ unit.input.type = "str"
    /\ unit.error = ""

\* the places of the registration indicators without a township code in the
\* unit's normalized string
C23_Spans ==
    Val({SelectSeq(FindSpans(re_REGISTRATION, str_upper(v), 1),
                   LAMBDA span : Search(re_UNNAMED, str_upper(Slice(v, span)), 1).start = 0) :
            v \in {unit.normalized_string.value}})

\* the normalized string without the characters of the one place
C23_Outside(span) ==
    SubSeq(unit.normalized_string.value, 1, span.start - 1)
        \o SubSeq(unit.normalized_string.value, span.end,
                  Len(unit.normalized_string.value))

\* C23: when a registration substring is found, the reporting fragments are
\* the cleaned pieces between the commas of the normalized string with that
\* one matched occurrence, punctuation included, taken out; the text outside
\* the occurrence stays, also when it repeats the name of the registration
\* town.
C23_OnlyTheMatchRemoved ==
    C23_Read =>
        \A spans \in {C23_Spans} :
            Len(spans) = 1 =>
                unit.reporting_town_names.value
                    = map_clean_town(Split(C23_Outside(spans[1]), STANDARD_DELIMITER))

---------------------------------------------------------------------------
(* C24 *)

\* a unit on which reporting_towns was the last call, its names and its
\* has_unspecified_group read without an exception
C24_Read ==
    /\ unit # NoUnit
    /\ unit.op = "reporting_towns"
    /\ unit.has_unspecified_group.cached

\* the final reporting fragments of the unit
C24_Fragments ==
    _format_reporting_towns(unit.reporting_town_names.value,
                            unit.registration_town_names.value,
                            unit.has_unspecified_group.value)

\* the variant of a fragment that is not empty
C24_Variant(fragment) ==
    IF Search(re_UNNAMED, str_upper(fragment), 1).start # 0 THEN "UnnamedTownship"
    ELSE IF Contains(fragment, UNSPECIFIED_FLAG) THEN "UnspecifiedGroup"
    ELSE "NamedTownship"

\* C24: reporting_towns holds one object for every final reporting fragment
\* that is not empty, an UnnamedTownship if the fragment contains a township
\* code, else an UnspecifiedGroup if it contains the group marker, else a
\* NamedTownship; an empty fragment is dropped, and building the list
\* succeeds.
C24_EmptyFragmentsDropped ==
    C24_Read =>
        /\ unit.error = ""
        /\ unit.reporting_towns.cached
        /\ \A fragments \in {NonEmpty(C24_Fragments)} :
              unit.reporting_towns.value
                  = [n \in DOMAIN fragments |->
                        [class |-> C24_Variant(fragments[n]), name |-> fragments[n],
                         county |-> unit.county]]

---------------------------------------------------------------------------
(* C25 *)

\* a unit with an unspecified group whose reporting_towns list was built
C25_Read ==
    /\ unit # NoUnit
    /\ unit.reporting_towns.cached
    /\ unit.has_unspecified_group.value = TRUE

\* the reporting fragments of the unit after the plural formatting
C25_Fragments ==
    [n \in DOMAIN unit.reporting_town_names.value |->
        _format_plural(unit.reporting_town_names.value[n], TRUE)]

C25_Flagged(fragment) == Contains(fragment, UNSPECIFIED_FLAG)

\* the marker word, the registration town names and the given fragments,
\* joined with spaces and put in the bracketed form
C25_GroupName(fragments) ==
    _format_unspecified_group(
        Join(NonEmpty(<<STANDARD_FLAG>> \o unit.registration_town_names.value \o fragments),
             " "))

\* the names of the objects of reporting_towns when the group is named after
\* the given fragments
C25_Named(fragments) ==
    /\ Len(unit.reporting_towns.value) = Len(C25_Fragments)
    /\ \A n \in DOMAIN C25_Fragments :
          unit.reporting_towns.value[n].name
              = IF C25_Flagged(C25_Fragments[n]) THEN C25_GroupName(fragments)
                ELSE C25_Fragments[n]

\* C25, as amended: with an unspecified group, the name that replaces each
\* fragment with the flag token is the space-join of UNSPECIFIED, the
\* registration town names and all the reporting fragments, those without the
\* flag token included, put in the bracketed form if it holds the multi-county
\* pattern; the fragments without the flag token stay in the result unchanged.
C25_GroupNameOfAllFragments == C25_Read => C25_Named(C25_Fragments)

\* C25, as the specification states it: the group name is joined from the
\* marker word, the registration town names and only the fragments that
\* contain the flag token.
C25_GroupNameOfFlaggedFragments ==
    C25_Read => C25_Named(SelectSeq(C25_Fragments, C25_Flagged))

\* a list was built in which a fragment without the flag token stands next to
\* the group, and the group's name holds that fragment
C25_Witness ==
    /\ C25_Read
    /\ \E n, k \in DOMAIN C25_Fragments :
          /\ C25_Flagged(C25_Fragments[n])
          /\ ~C25_Flagged(C25_Fragments[k])
          /\ unit.reporting_towns.value[k].name = C25_Fragments[k]
          /\ unit.reporting_towns.value[n].name # C25_GroupName(<<C25_Fragments[n]>>)

---------------------------------------------------------------------------
(* C26 *)

\* a unit whose reporting_towns list was built and whose group properties
\* were read last
C26_Read ==
    /\ unit # NoUnit
    /\ unit.op = "group_properties"
    /\ unit.reporting_towns.cached

\* the county code in brackets at the end of a group name, "" without one
C26_Bracketed(name) ==
    IF /\ Len(name) >= 6
       /\ SubSeq(name, Len(name) - 5, Len(name) - 4) = " ["
       /\ SubSeq(name, Len(name), Len(name)) = "]"
    THEN SubSeq(name, Len(name) - 3, Len(name) - 1)
    ELSE ""

\* C26: for every UnspecifiedGroup of a unit, group_registration_town and
\* group_county do not fail; the name of the group's registration town is
\* the unit's registration town name when the unit has one, and the code of
\* the group's county is the code in brackets of the group name, the unit's
\* county without one.
C26_GroupNameDecomposes ==
    C26_Read =>
        /\ unit.error = ""
        /\ unit.groups.cached
        /\ \A k \in DOMAIN unit.reporting_towns.value :
              unit.reporting_towns.value[k].class = "UnspecifiedGroup" =>
                 /\ Len(unit.registration_town_names.value) = 1 =>
                       unit.groups.value[k].group_registration_town
                           = unit.registration_town_names.value[1]
                 /\ unit.groups.value[k].group_county
                       = IF C26_Bracketed(unit.reporting_towns.value[k].name) # ""
                         THEN C26_Bracketed(unit.reporting_towns.value[k].name)
                         ELSE unit.county

---------------------------------------------------------------------------
(* C27 *)

\* a unit whose reporting_towns list was built
C27_Read == unit # NoUnit /\ unit.reporting_towns.cached

\* the word TWP stands in the fragment
C27_HasSingular(fragment) == Search(re_SINGULAR, fragment, 1).start # 0

\* C27: after the plural formatting the flag token TWPS in a reporting
\* fragment tells an unspecified group: without an unspecified group no
\* fragment of the list contains TWPS and no object is an UnspecifiedGroup;
\* with one, no reporting fragment holds the singular word TWP any more.
C27_PluralFlagMeansGroup ==
    C27_Read =>
        /\ unit.has_unspecified_group.value = FALSE =>
              \A k \in DOMAIN unit.reporting_towns.value :
                 /\ ~Contains(unit.reporting_towns.value[k].name, PLURAL)
                 /\ unit.reporting_towns.value[k].class # "UnspecifiedGroup"
        /\ unit.has_unspecified_group.value = TRUE =>
              \A n \in DOMAIN unit.reporting_town_names.value :
                 ~C27_HasSingular(_format_plural(unit.reporting_town_names.value[n], TRUE))

---------------------------------------------------------------------------
(* C28 *)

\* a string unit on which registration_towns was the last call
C28_Read == unit # NoUnit /\ unit.op = "registration_towns" /\ unit.input.type = "str"

\* the registration-indicator matches of the unit's normalized string
C28_Matches ==
    Val({FindAll(re_REGISTRATION, v, str_upper(v)) :
            v \in {normalized_string(unit.input.str)}})

\* the match contains a township code
C28_HasCode(flagged) == Search(re_UNNAMED, str_upper(flagged), 1).start # 0

\* the match is a township code between its punctuation and nothing else
C28_IsCode(flagged) ==
    \E end \in 1..(Len(flagged) + 1) :
        /\ end \in Range(Ends(Cat(<<Star(NotIn(Word)), re_UNNAMED>>), str_upper(flagged), 1))
        /\ \A i \in end..Len(flagged) : Char(flagged, i) \notin Word

\* what registration_towns gives when the kept matches are the given ones
C28_Reads(kept) ==
    /\ (unit.error = "ValueError") <=> (Len(kept) > 1)
    /\ Len(kept) = 0 =>
           /\ unit.registration_town_names.cached
           /\ unit.registration_town_names.value = <<>>
    /\ Len(kept) = 1 =>
           /\ unit.registration_town_names.cached
           /\ unit.registration_town_names.value
                  = map_clean_town(Split(kept[1], STANDARD_DELIMITER))

\* C28, as amended: a registration-indicator match is discarded exactly when
\* it contains an unnamed-township code, whether the code stands alone or next
\* to a town name; a match without a code is kept as a registration
\* indicator.
C28_MatchesWithCodeDiscarded ==
    C28_Read => C28_Reads(SelectSeq(C28_Matches, LAMBDA flagged : ~C28_HasCode(flagged)))

\* C28, as the specification states it: a match is discarded exactly when it
\* is purely an unnamed-township code; a match with a town name next to a
\* code is kept.
C28_OnlyCodesDiscarded ==
    C28_Read => C28_Reads(SelectSeq(C28_Matches, LAMBDA flagged : ~C28_IsCode(flagged)))

\* a string was read whose one match holds a town name next to a code, and
\* no registration town came of it
C28_Witness ==
    /\ C28_Read
    /\ Len(C28_Matches) = 1
    /\ C28_HasCode(C28_Matches[1])
    /\ ~C28_IsCode(C28_Matches[1])
    /\ unit.registration_town_names.cached
    /\ unit.registration_town_names.value = <<>>

\* a string was read with a match that is a code alone, discarded, and a
\* match without a code, kept
C28_WitnessCode ==
    /\ C28_Read
    /\ Len(C28_Matches) = 2
    /\ C28_IsCode(C28_Matches[1])
    /\ ~C28_HasCode(C28_Matches[2])
    /\ unit.registration_town_names.cached
    /\ Len(unit.registration_town_names.value) = 1

---------------------------------------------------------------------------
(* C29 *)

\* a unit with an unspecified group whose reporting_towns list was built
C29_Read ==
    /\ unit # NoUnit
    /\ unit.reporting_towns.cached
    /\ unit.has_unspecified_group.value = TRUE

\* the places of the UnspecifiedGroup objects in the list
C29_Groups ==
    {k \in DOMAIN unit.reporting_towns.value :
        unit.reporting_towns.value[k].class = "UnspecifiedGroup"}

\* C29: whenever has_unspecified_group is true, the reporting_towns list
\* holds exactly one UnspecifiedGroup object, never none and never two.
C29_ExactlyOneGroup == C29_Read => Cardinality(C29_Groups) = 1

---------------------------------------------------------------------------
(* C22 *)

\* a County after its construction
C22_Read == unit # NoUnit /\ unit.op = "__post_init__"

\* the fields of row n of the table
C22_Row(n) ==
    CountyFields(COUNTIES[n].county_name, COUNTIES[n].sos_county, COUNTIES[n].county_fips)

C22_Rows == {C22_Row(n) : n \in DOMAIN COUNTIES}

\* no field was given
C22_NoneGiven ==
    unit.given.name = NoName /\ unit.given.code = NoName /\ unit.given.fips = NoFips

\* every given field is the field of the row
C22_GivenFrom(row) ==
    /\ unit.given.name \in {NoName, row.name}
    /\ unit.given.code \in {NoName, row.code}
    /\ unit.given.fips \in {NoFips, row.fips}

\* every given field occurs in its column of the table
C22_GivenInTable ==
    /\ unit.given.name \in {NoName} \cup {row.name : row \in C22_Rows}
    /\ unit.given.code \in {NoName} \cup {row.code : row \in C22_Rows}
    /\ unit.given.fips \in {NoFips} \cup {row.fips : row \in C22_Rows}

\* the County holds the three fields of one row
C22_Complete == unit.county \in C22_Rows

\* C22, as amended: a County constructed from a non-empty subset of name,
\* code and fips whose given values occur in one row of the lookup table
\* holds the three fields of that row, none of them null; constructed with no
\* field, it has three null fields.
C22_FieldsOfOneRow ==
    C22_Read =>
        /\ C22_NoneGiven => unit.county = CountyFields(NoName, NoName, NoFips)
        /\ \A row \in C22_Rows :
              ~C22_NoneGiven /\ C22_GivenFrom(row) => unit.county = row

\* C22, as the specification states it: given values that occur in the
\* table, in whatever rows, give a County with the three fields of one row.
C22_FieldsOfTheTable ==
    C22_Read =>
        /\ C22_NoneGiven => unit.county = CountyFields(NoName, NoName, NoFips)
        /\ ~C22_NoneGiven /\ C22_GivenInTable => C22_Complete

\* a County was constructed from a name alone and holds the row of the name
C22_Witness ==
    /\ C22_Read
    /\ unit.given.name # NoName
    /\ unit.given.code = NoName
    /\ unit.given.fips = NoFips
    /\ C22_Complete
    /\ unit.county.name = unit.given.name

\* a County was constructed with no field and has none
C22_WitnessNone ==
    /\ C22_Read
    /\ C22_NoneGiven
    /\ unit.county = CountyFields(NoName, NoName, NoFips)

====
